------------------------- MODULE ControlPlane_proofs -------------------------
(***************************************************************************)
(* For any set of requests, any number of handlers at a time and any       *)
(* faults: the type invariant, that live_small_auto is never persisted,    *)
(* and that the handlers implement the ControlRows contract.               *)
(***************************************************************************)
EXTENDS ControlPlane, FiniteSetTheorems, TLAPS

USE ControlPlaneAssumption DEF RequestsAssumption

\* Any rows earlier processes left, and no request yet.
LEMMA InitIInv == Init => IInv
<1> SUFFICES ASSUME Init PROVE IInv
  OBVIOUS
<1>1. TypeOK
  BY DEF Init, RowsInit, TypeOK, RowKeys, Values, ReachableModes, Modes, LockValues,
         DefaultMode, Replies
<1>2. LiveRequestsStop
  BY DEF Init, LiveRequestsStop, Persisting
<1>3. RowsInContract
  BY DEF Init, RowsInit, RowsInContract
<1> QED
  BY <1>1, <1>2, <1>3 DEF IInv

\* What the repository getters return to a handler.
LEMMA ReadersAreTyped ==
  ASSUME TypeOK, RowsInContract
  PROVE  /\ TradeMode(rows) \in Modes
         /\ LockEngaged(rows) \in BOOLEAN
         /\ \A k \in RowKeys : View(rows, k) \in Values
BY DEF TypeOK, RowsInContract, ContractValues, RowKeys, ReachableModes, Modes, LockValues,
       Values, TradeMode, LockEngaged, View, DefaultMode

\* An audit event is built from the request and what its session read.
LEMMA RecordTyped ==
  ASSUME TypeOK, NEW r \in Requests, NEW t \in EventTypes, RecordEvent(r, t)
  PROVE  events' \in Seq(EventRecords)
<1>1. [type |-> t, by |-> r, before |-> sess[r].before, after |-> sess[r].after]
        \in EventRecords
  BY DEF TypeOK, EventRecords
<1>2. events \in Seq(EventRecords)
  BY DEF TypeOK, EventRecords
<1> QED
  BY <1>1, <1>2 DEF RecordEvent

\* Every step of the type invariant; the history variable is typed on its own.
LEMMA TypeStep ==
  ASSUME TypeOK, RowsInContract, [Next]_vars
  PROVE  TypeOK'
<1> USE DEF Running, Persisting, Replies, Goto, Answer
<1>0. /\ TradeMode(rows) \in Modes
      /\ LockEngaged(rows) \in BOOLEAN
      /\ \A k \in RowKeys : View(rows, k) \in Values
  BY ReadersAreTyped
<1>1. CASE UNCHANGED vars
  BY <1>1 DEF vars, TypeOK
<1>2. CASE Next
  <2>o. held' \in [Requests -> BOOLEAN]
    BY <1>2 DEF Next, Observe
  <2> SUFFICES ASSUME NEW r \in Requests, Start(r) \/ Handler(r) \/ Fail(r) \/ Crash
               PROVE  TypeOK'
    BY <1>2 DEF Next, Crash, InFlight
  <2>1. CASE Start(r)
    BY <2>1, <2>o DEF Start, TypeOK
  <2>2. CASE ReadMode(r)
    BY <2>2, <2>o, <1>0 DEF ReadMode, TypeOK
  <2>3. CASE DecideMode(r)
    BY <2>3, <2>o, <1>0 DEF DecideMode, TypeOK
  <2>4. CASE PreFlight(r)
    BY <2>4, <2>o DEF PreFlight, TypeOK
  <2>5. CASE RecordBlocked(r)
    <3>1. events' \in Seq(EventRecords)
      BY <2>5, RecordTyped DEF RecordBlocked, EventTypes
    <3> QED
      BY <2>5, <2>o, <3>1 DEF RecordBlocked, Recorded, TypeOK, EventRecords
  <2>6. CASE ReadBefore(r)
    BY <2>6, <2>o, <1>0 DEF ReadBefore, TypeOK
  <2>7. CASE Locate(r)
    BY <2>7, <2>o DEF Locate, TypeOK
  <2>8. CASE Commit(r)
    BY <2>8, <2>o DEF Commit, WriteRow, TypeOK, RowKeys, Values
  <2>9. CASE ElideCommit(r)
    BY <2>9, <2>o DEF ElideCommit, TypeOK
  <2>10. CASE CollideInsert(r)
    BY <2>10, <2>o DEF CollideInsert, TypeOK
  <2>11. CASE Reread(r)
    BY <2>11, <2>o, <1>0 DEF Reread, TypeOK
  <2>12. CASE RecordChange(r)
    <3>1. events' \in Seq(EventRecords)
      BY <2>12, RecordTyped DEF RecordChange, ChangeEvent, EventTypes
    <3> QED
      BY <2>12, <2>o, <3>1 DEF RecordChange, Recorded, TypeOK, EventRecords
  <2>13. CASE Fail(r)
    BY <2>13, <2>o DEF Fail, TypeOK
  <2>14. CASE Crash
    BY <2>14, <2>o DEF Crash, TypeOK
  <2> QED
    BY <2>1, <2>2, <2>3, <2>4, <2>5, <2>6, <2>7, <2>8, <2>9, <2>10, <2>11, <2>12,
       <2>13, <2>14 DEF Handler
<1> QED
  BY <1>1, <1>2

\* The reading a handler judges is the reading pre-flight sees, and the guard and
\* pre-flight want opposite things of its lock.
LEMMA LiveRequestsStopStep ==
  ASSUME IInv, [Next]_vars
  PROVE  LiveRequestsStop'
<1> USE DEF Running, Persisting, Goto, Answer, IInv
<1> SUFFICES ASSUME NEW q \in Requests, q.to = "live_small_auto"
             PROVE  /\ pc'[q] \notin Persisting
                    /\ pc'[q] = "preflight" => seen'[q].locked
  BY DEF LiveRequestsStop
<1>0. /\ pc[q] \notin Persisting
      /\ pc[q] = "preflight" => seen[q].locked
      /\ q.key = "trade_mode"
  <2>1. q.to \notin LockValues
    BY DEF LockValues
  <2> QED
    BY <2>1 DEF LiveRequestsStop, RowKeys
<1>1. CASE UNCHANGED vars
  BY <1>0, <1>1 DEF vars
<1>2. CASE Next
  <2> SUFFICES ASSUME NEW r \in Requests, Start(r) \/ Handler(r) \/ Fail(r) \/ Crash
               PROVE  /\ pc'[q] \notin Persisting
                      /\ pc'[q] = "preflight" => seen'[q].locked
    BY <1>2 DEF Next, Crash, InFlight
  <2>1. CASE Start(r)
    BY <2>1, <1>0 DEF Start, TypeOK
  <2>2. CASE ReadMode(r)
    BY <2>2, <1>0 DEF ReadMode, TypeOK
  <2>3. CASE DecideMode(r)
    <3>1. CASE r = q
      <4>1. seen'[q] = [seen[q] EXCEPT !.locked = LockEngaged(rows)]
        BY <2>3, <3>1 DEF DecideMode, TypeOK
      <4>2. pc'[q] = "preflight" => Allowed(q, seen'[q]) /\ seen'[q].mode # q.to
        BY <2>3, <3>1, <4>1 DEF DecideMode, TypeOK
      <4>3. Allowed(q, seen'[q]) /\ seen'[q].mode # q.to => seen'[q].locked
        BY DEF Allowed, TransitionAllowed
      <4>4. pc'[q] \notin Persisting
        BY <2>3, <3>1 DEF DecideMode, TypeOK
      <4> QED
        BY <4>2, <4>3, <4>4
    <3>2. CASE r # q
      BY <2>3, <3>2, <1>0 DEF DecideMode, TypeOK
    <3> QED
      BY <3>1, <3>2
  <2>4. CASE PreFlight(r)
    <3>1. CASE r = q
      BY <2>4, <3>1, <1>0 DEF PreFlight, PreFlightPasses, TypeOK
    <3>2. CASE r # q
      BY <2>4, <3>2, <1>0 DEF PreFlight, TypeOK
    <3> QED
      BY <3>1, <3>2
  <2>5. CASE RecordBlocked(r)
    BY <2>5, <1>0 DEF RecordBlocked, Recorded, TypeOK
  <2>6. CASE ReadBefore(r)
    BY <2>6, <1>0 DEF ReadBefore, TypeOK
  <2>7. CASE Locate(r)
    BY <2>7, <1>0 DEF Locate, TypeOK
  <2>8. CASE Commit(r)
    BY <2>8, <1>0 DEF Commit, TypeOK
  <2>9. CASE ElideCommit(r)
    BY <2>9, <1>0 DEF ElideCommit, TypeOK
  <2>10. CASE CollideInsert(r)
    BY <2>10, <1>0 DEF CollideInsert, TypeOK
  <2>11. CASE Reread(r)
    BY <2>11, <1>0 DEF Reread, TypeOK
  <2>12. CASE RecordChange(r)
    BY <2>12, <1>0 DEF RecordChange, Recorded, TypeOK
  <2>13. CASE Fail(r)
    BY <2>13, <1>0 DEF Fail, TypeOK
  <2>14. CASE Crash
    BY <2>14, <1>0 DEF Crash, InFlight, TypeOK
  <2> QED
    BY <2>1, <2>2, <2>3, <2>4, <2>5, <2>6, <2>7, <2>8, <2>9, <2>10, <2>11, <2>12,
       <2>13, <2>14 DEF Handler
<1> QED
  BY <1>1, <1>2

\* Only Commit writes, and what it writes is a value of the contract.
LEMMA RowsStep ==
  ASSUME IInv, [Next]_vars
  PROVE  [RowsNext]_rows
<1>1. CASE UNCHANGED vars
  BY <1>1 DEF vars
<1>2. CASE Next
  <2> SUFFICES ASSUME NEW r \in Requests, Start(r) \/ Handler(r) \/ Fail(r) \/ Crash
               PROVE  [RowsNext]_rows
    BY <1>2 DEF Next, Crash, InFlight
  <2>1. CASE Commit(r)
    <3>1. r.to # "live_small_auto"
      BY <2>1 DEF IInv, LiveRequestsStop, Commit, Persisting
    <3>2. r.key \in RowKeys /\ r.to \in ContractValues(r.key)
      BY <3>1 DEF RowKeys, ContractValues, ReachableModes
    <3> QED
      BY <2>1, <3>2 DEF Commit, RowsNext
  <2>2. CASE ~Commit(r)
    BY <2>2 DEF Start, Handler, ReadMode, DecideMode, PreFlight, RecordBlocked, ReadBefore,
                Locate, ElideCommit, CollideInsert, Reread, RecordChange, Fail, Crash
  <2> QED
    BY <2>1, <2>2
<1> QED
  BY <1>1, <1>2

\* A contract write keeps each row in its own range.
LEMMA ContractStep ==
  ASSUME TypeOK, RowsInContract, [RowsNext]_rows
  PROVE  RowsInContract'
BY DEF TypeOK, RowsInContract, RowsNext, WriteRow, RowKeys, ContractValues, ReachableModes

\* The inductive invariant holds of every behaviour.
LEMMA Inductive == Spec => []IInv
<1>1. IInv /\ [Next]_vars => IInv'
  BY TypeStep, LiveRequestsStopStep, RowsStep, ContractStep DEF IInv
<1> QED
  BY InitIInv, <1>1, PTL DEF Spec

\* The type invariant.
THEOREM TypeCorrect == Spec => []TypeOK
<1>1. IInv => TypeOK
  BY DEF IInv
<1> QED
  BY Inductive, <1>1, PTL

\* No set of requests, interleaving or fault persists live_small_auto.
THEOREM LiveSmallAutoUnreachable == Spec => []NeverLiveSmallAuto
<1>1. IInv => NeverLiveSmallAuto
  BY DEF IInv, RowsInContract, ContractValues, RowKeys, ReachableModes, NeverLiveSmallAuto,
         TradeMode, DefaultMode
<1> QED
  BY Inductive, <1>1, PTL

\* The request handlers implement the registers the trading loop reads.
THEOREM HandlersKeepContract == Spec => Contract
<1>1. Init => RowsInit
  BY DEF Init
<1>2. IInv /\ [Next]_vars => [RowsNext]_rows
  BY RowsStep
<1> QED
  BY Inductive, <1>1, <1>2, PTL DEF Spec, Contract, RowsSpec

-----------------------------------------------------------------------------
(* What becomes of one request: the trace it leaves and the value it held.  *)

RequestTrace(r) ==
  /\ r.dryRun => pc[r] \notin Persisting /\ ~Committed(r)
  /\ pc[r] # "done" => reply[r] = "none" /\ ~Committed(r)
  /\ reply[r] = "refused" => ~Committed(r)
  /\ Committed(r) => held[r]
  /\ pc[r] \in {"reread", "record"} => held[r]
  /\ pc[r] = "commit" /\ sess[r].loaded = r.to => held[r]

TraceInv == \A r \in Requests : RequestTrace(r)

\* One more event makes a change of r recorded only when it is r's own change.
LEMMA OneMoreEvent ==
  ASSUME TypeOK, NEW r \in Requests, NEW q \in Requests, NEW t \in EventTypes,
         RecordEvent(r, t)
  PROVE  Committed(q)' => Committed(q) \/ (q = r /\ t = ChangeEvent(r.key))
<1> DEFINE e == [type |-> t, by |-> r, before |-> sess[r].before, after |-> sess[r].after]
<1>1. events \in Seq(EventRecords) /\ e \in EventRecords
  BY DEF TypeOK, EventRecords
<1>2. events' = Append(events, e)
  BY DEF RecordEvent
<1> HIDE DEF e
<1>3. SUFFICES ASSUME NEW i \in DOMAIN events', events'[i].by = q,
                      events'[i].type = ChangeEvent(q.key)
               PROVE  Committed(q) \/ (q = r /\ t = ChangeEvent(r.key))
  BY DEF Committed
<1>4. CASE i \in DOMAIN events
  <2>1. events'[i] = events[i]
    BY <1>1, <1>2, <1>4
  <2> QED
    BY <2>1, <1>3, <1>4 DEF Committed
<1>5. CASE i \notin DOMAIN events
  <2>1. events'[i] = e
    BY <1>1, <1>2, <1>5
  <2> QED
    BY <2>1, <1>3 DEF e
<1> QED
  BY <1>4, <1>5

\* A row that holds the requested value is read as that value.
LEMMA WrittenIsViewed ==
  ASSUME NEW r \in Requests, NEW rs, rs[r.key] = r.to
  PROVE  View(rs, r.key) = r.to
BY DEF View, TradeMode, LockEngaged, RowKeys, LockValues, Modes, Values

\* Each step of a handler takes its request's trace along, and no other's.
LEMMA TraceStep ==
  ASSUME TypeOK, RowsInContract, TraceInv, [Next]_vars
  PROVE  TraceInv'
<1> USE DEF Running, Persisting, Goto, Answer
<1> SUFFICES ASSUME NEW q \in Requests
             PROVE  RequestTrace(q)'
  BY DEF TraceInv
<1>0. RequestTrace(q)
  BY DEF TraceInv
<1>1. CASE UNCHANGED vars
  BY <1>0, <1>1 DEF vars, RequestTrace, Committed
<1>2. CASE Next
  <2>h. /\ held[q] => held'[q]
        /\ pc[q] \in Persisting /\ q.to \in {View(rows, q.key), View(rows', q.key)} => held'[q]
    BY <1>2 DEF Next, Observe
  <2>e. events' = events => (Committed(q)' <=> Committed(q))
    BY DEF Committed
  <2> SUFFICES ASSUME NEW r \in Requests, Start(r) \/ Handler(r) \/ Fail(r) \/ Crash
               PROVE  RequestTrace(q)'
    BY <1>2 DEF Next, Crash, InFlight
  <2>1. CASE Start(r)
    BY <2>1, <2>h, <2>e, <1>0 DEF Start, TypeOK, RequestTrace, RowKeys
  <2>2. CASE ReadMode(r)
    BY <2>2, <2>h, <2>e, <1>0 DEF ReadMode, TypeOK, RequestTrace
  <2>3. CASE DecideMode(r)
    BY <2>3, <2>h, <2>e, <1>0 DEF DecideMode, TypeOK, RequestTrace
  <2>4. CASE PreFlight(r)
    BY <2>4, <2>h, <2>e, <1>0 DEF PreFlight, TypeOK, RequestTrace
  <2>5. CASE RecordBlocked(r)
    <3>1. Committed(q)' => Committed(q)
      BY <2>5, OneMoreEvent DEF RecordBlocked, EventTypes, ChangeEvent
    <3> QED
      BY <2>5, <2>h, <1>0, <3>1 DEF RecordBlocked, Recorded, TypeOK, RequestTrace
  <2>6. CASE ReadBefore(r)
    BY <2>6, <2>h, <2>e, <1>0 DEF ReadBefore, TypeOK, RequestTrace
  <2>7. CASE Locate(r)
    <3>1. r = q /\ rows[q.key] = q.to => held'[q]
      BY <2>7, <2>h, WrittenIsViewed DEF Locate
    <3> QED
      BY <2>7, <2>h, <2>e, <1>0, <3>1 DEF Locate, TypeOK, RequestTrace
  <2>8. CASE Commit(r)
    <3>1. rows'[r.key] = r.to
      BY <2>8 DEF Commit, WriteRow, TypeOK
    <3>2. r = q => held'[q]
      BY <2>8, <2>h, <3>1, WrittenIsViewed DEF Commit
    <3> QED
      BY <2>8, <2>h, <2>e, <1>0, <3>2 DEF Commit, TypeOK, RequestTrace
  <2>9. CASE ElideCommit(r)
    BY <2>9, <2>h, <2>e, <1>0 DEF ElideCommit, TypeOK, RequestTrace
  <2>10. CASE CollideInsert(r)
    BY <2>10, <2>h, <2>e, <1>0 DEF CollideInsert, TypeOK, RequestTrace
  <2>11. CASE Reread(r)
    BY <2>11, <2>h, <2>e, <1>0 DEF Reread, TypeOK, RequestTrace
  <2>12. CASE RecordChange(r)
    <3>1. Committed(q)' => Committed(q) \/ q = r
      BY <2>12, OneMoreEvent DEF RecordChange, EventTypes, ChangeEvent
    <3>2. ~r.dryRun /\ held[r] /\ pc'[r] = "done" /\ reply'[r] # "refused"
      BY <2>12 DEF RecordChange, Recorded, TypeOK, TraceInv, RequestTrace
    <3> QED
      BY <2>12, <2>h, <1>0, <3>1, <3>2 DEF RecordChange, Recorded, TypeOK, RequestTrace
  <2>13. CASE Fail(r)
    BY <2>13, <2>h, <2>e, <1>0 DEF Fail, TypeOK, RequestTrace
  <2>14. CASE Crash
    BY <2>14, <2>h, <2>e, <1>0 DEF Crash, InFlight, TypeOK, RequestTrace
  <2> QED
    BY <2>1, <2>2, <2>3, <2>4, <2>5, <2>6, <2>7, <2>8, <2>9, <2>10, <2>11, <2>12, <2>13, <2>14 DEF Handler
<1> QED
  BY <1>1, <1>2

\* Every request's trace stays what RequestTrace says.
LEMMA Traced == Spec => []TraceInv
<1>1. Init => TraceInv
  BY DEF Init, TraceInv, RequestTrace, Committed, Persisting
<1>2. IInv /\ TraceInv /\ [Next]_vars => TraceInv'
  BY TraceStep DEF IInv
<1> QED
  BY Inductive, <1>1, <1>2, PTL DEF Spec

\* Whatever runs beside it and fails, a refused request and a dry run change no
\* row and record no change.
THEOREM RefusalsLeaveNoTrace == Spec => []NoTraceOfRefusals
<1>1. TraceInv => NoTraceOfRefusals
  BY DEF TraceInv, RequestTrace, NoTraceOfRefusals, Persisting
<1> QED
  BY Traced, <1>1, PTL

\* An acknowledged change was in force while its handler ran, in any race.
THEOREM AcknowledgedWasInForce == Spec => []AckedChangeWasInForce
<1>1. TraceInv => AckedChangeWasInForce
  BY DEF TraceInv, RequestTrace, AckedChangeWasInForce
<1> QED
  BY Traced, <1>1, PTL

-----------------------------------------------------------------------------
(* The audit trail of handlers that run one at a time.  An event that is    *)
(* not recorded yet is owed by the handler that wrote the row: until then   *)
(* the trail names what that handler read before.                           *)

Alone == InFlight = {} \/ \E r \in Requests : InFlight = {r}

\* What the handler of r knows of its row, for nobody else writes it.
Knows(r) ==
  /\ pc[r] \in {"locate", "commit"} => sess[r].before = View(rows, r.key)
  /\ pc[r] = "commit" => sess[r].loaded = rows[r.key]
  /\ pc[r] \in {"reread", "record"} => rows[r.key] = r.to
  /\ pc[r] = "record" => sess[r].after = r.to

Faultless == \A r \in Requests : reply[r] \notin {"unavailable", "lost"}

Chained(k) ==
  \A i, j \in ChangesOf(k) :
    /\ events[i].after = events[i].by.to
    /\ i < j /\ (\A m \in ChangesOf(k) : ~(i < m /\ m < j))
         => events[j].before = events[i].after

LastNames(k, v) ==
  \A i \in ChangesOf(k) : (\A j \in ChangesOf(k) : j <= i) => events[i].after = v

Owes(r, k) == r.key = k /\ pc[r] \in {"reread", "record"}

Explained(k) ==
  /\ Chained(k)
  /\ (\A r \in Requests : ~Owes(r, k)) => LastNames(k, View(rows, k))
  /\ \A r \in Requests : Owes(r, k) => LastNames(k, sess[r].before)

AuditInv ==
  /\ Alone
  /\ \A r \in Requests : Knows(r)
  /\ Faultless => \A k \in RowKeys : Explained(k)

\* A handler starts when no other is in flight, and none joins it.
LEMMA AloneStep ==
  ASSUME MaxInFlight = 1, TypeOK, Alone, [Next]_vars
  PROVE  /\ Alone'
         /\ \A r, q \in Requests : pc[r] \in Running /\ pc[q] \in Running => r = q
<1> USE DEF Running, Persisting, Goto, Answer
<1>1. \A r, q \in Requests : pc[r] \in Running /\ pc[q] \in Running => r = q
  BY DEF Alone, InFlight
<1>2. CASE UNCHANGED vars
  BY <1>1, <1>2 DEF vars, Alone, InFlight
<1>3. CASE Next
  <2> SUFFICES ASSUME NEW r \in Requests, Start(r) \/ Handler(r) \/ Fail(r) \/ Crash
               PROVE  Alone'
    BY <1>1, <1>3 DEF Next, Crash, InFlight
  <2>1. CASE Start(r)
    <3>1. \A q \in Requests : InFlight = {q} => Cardinality(InFlight) = 1
      BY FS_Singleton
    <3>2. InFlight = {} => Cardinality(InFlight) = 0
      BY FS_EmptySet
    <3>3. InFlight = {}
      BY <2>1, <3>1, <3>2 DEF Start, Alone
    <3>4. InFlight' = {r}
      BY <2>1, <3>3 DEF Start, InFlight, TypeOK
    <3> QED BY <3>4 DEF Alone
  <2>2. CASE Crash
    <3>1. InFlight' = {}
      BY <2>2 DEF Crash, InFlight, TypeOK
    <3> QED BY <3>1 DEF Alone
  <2>3. CASE Handler(r) \/ Fail(r)
    <3>1. pc[r] \in Running /\ \E l : pc' = [pc EXCEPT ![r] = l]
      BY <2>3 DEF Handler, Fail, ReadMode, DecideMode, PreFlight, RecordBlocked, Recorded,
                  ReadBefore, Locate, Commit, ElideCommit, CollideInsert, Reread, RecordChange
    <3>2. InFlight = {r}
      BY <3>1 DEF Alone, InFlight
    <3>3. InFlight' \subseteq {r}
      BY <3>1, <3>2 DEF InFlight, TypeOK
    <3> QED BY <3>3 DEF Alone
  <2> QED BY <2>1, <2>2, <2>3
<1> QED BY <1>1, <1>2, <1>3

\* The events recorded so far stay what they are, and one of another type adds none.
LEMMA TrailKept ==
  ASSUME TypeOK, NEW r \in Requests, NEW k \in RowKeys,
         events' = events \/ \E t \in EventTypes \ {ChangeEvent(k)} : RecordEvent(r, t)
  PROVE  ChangesOf(k)' = ChangesOf(k) /\ \A i \in ChangesOf(k) : events'[i] = events[i]
<1>1. CASE events' = events
  BY <1>1 DEF ChangesOf
<1>2. CASE \E t \in EventTypes \ {ChangeEvent(k)} : RecordEvent(r, t)
  <2>1. PICK t \in EventTypes \ {ChangeEvent(k)} : RecordEvent(r, t)
    BY <1>2
  <2> DEFINE e == [type |-> t, by |-> r, before |-> sess[r].before, after |-> sess[r].after]
  <2>2. events \in Seq(EventRecords) /\ e \in EventRecords /\ events' = Append(events, e)
    BY <2>1 DEF TypeOK, EventRecords, RecordEvent
  <2>3. e.type # ChangeEvent(k)
    BY <2>1
  <2> HIDE DEF e
  <2>4. /\ Len(events) \in Nat /\ DOMAIN events = 1..Len(events)
        /\ DOMAIN events' = 1..(Len(events) + 1)
        /\ events'[Len(events) + 1] = e
        /\ \A i \in 1..Len(events) : events'[i] = events[i]
    BY <2>2
  <2> QED BY <2>3, <2>4 DEF ChangesOf
<1> QED BY <1>1, <1>2

\* What is read of a row depends on that row alone.
LEMMA ViewOfRow ==
  ASSUME NEW k \in RowKeys, NEW rs, NEW ss, rs[k] = ss[k]
  PROVE  View(rs, k) = View(ss, k)
BY DEF View, TradeMode, LockEngaged, RowKeys

\* A handler that is alone finds its row as it left it.
LEMMA KnowsStep ==
  ASSUME MaxInFlight = 1, TypeOK, Alone, \A q \in Requests : Knows(q), [Next]_vars
  PROVE  \A q \in Requests : Knows(q)'
<1> USE DEF Running, Persisting, Goto, Answer
<1> SUFFICES ASSUME NEW q \in Requests PROVE Knows(q)'
  OBVIOUS
<1>0. Knows(q) /\ q.key \in RowKeys
  OBVIOUS
<1>1. CASE UNCHANGED vars
  BY <1>0, <1>1 DEF vars, Knows
<1>2. CASE Next
  <2> SUFFICES ASSUME NEW r \in Requests, Start(r) \/ Handler(r) \/ Fail(r) \/ Crash
               PROVE  Knows(q)'
    BY <1>2 DEF Next, Crash, InFlight
  <2>a. pc[r] \in Running /\ pc[q] \in Running => r = q
    BY AloneStep
  <2>1. CASE Start(r)
    BY <2>1, <1>0 DEF Start, TypeOK, Knows
  <2>2. CASE ReadMode(r)
    BY <2>2, <1>0 DEF ReadMode, TypeOK, Knows
  <2>3. CASE DecideMode(r)
    BY <2>3, <1>0 DEF DecideMode, TypeOK, Knows
  <2>4. CASE PreFlight(r)
    BY <2>4, <1>0 DEF PreFlight, TypeOK, Knows
  <2>5. CASE RecordBlocked(r)
    BY <2>5, <1>0 DEF RecordBlocked, Recorded, TypeOK, Knows
  <2>6. CASE ReadBefore(r)
    BY <2>6, <1>0 DEF ReadBefore, TypeOK, Knows
  <2>7. CASE Locate(r)
    BY <2>7, <1>0 DEF Locate, TypeOK, Knows
  <2>8. CASE Commit(r)
    BY <2>8, <2>a, <1>0 DEF Commit, WriteRow, TypeOK, Knows
  <2>9. CASE ElideCommit(r)
    BY <2>9, <1>0 DEF ElideCommit, TypeOK, Knows
  <2>10. CASE CollideInsert(r)
    BY <2>10, <1>0 DEF CollideInsert, TypeOK, Knows
  <2>11. CASE Reread(r)
    <3>1. r = q => View(rows, q.key) = q.to
      BY <2>11, <1>0, WrittenIsViewed DEF Reread, Knows
    <3> QED
      BY <2>11, <1>0, <3>1 DEF Reread, TypeOK, Knows
  <2>12. CASE RecordChange(r)
    BY <2>12, <1>0 DEF RecordChange, Recorded, TypeOK, Knows
  <2>13. CASE Fail(r)
    BY <2>13, <1>0 DEF Fail, TypeOK, Knows
  <2>14. CASE Crash
    BY <2>14, <1>0 DEF Crash, InFlight, TypeOK, Knows
  <2> QED
    BY <2>1, <2>2, <2>3, <2>4, <2>5, <2>6, <2>7, <2>8, <2>9, <2>10, <2>11, <2>12, <2>13, <2>14 DEF Handler
<1> QED
  BY <1>1, <1>2

\* A step that neither writes the row nor records a change of it.
LEMMA StillExplained ==
  ASSUME TypeOK, NEW r \in Requests, NEW k \in RowKeys, Explained(k),
         events' = events \/ \E t \in EventTypes \ {ChangeEvent(k)} : RecordEvent(r, t),
         View(rows', k) = View(rows, k),
         \A q \in Requests : /\ Owes(q, k)' <=> Owes(q, k)
                             /\ Owes(q, k) => sess'[q].before = sess[q].before
  PROVE  Explained(k)'
<1>1. ChangesOf(k)' = ChangesOf(k) /\ \A i \in ChangesOf(k) : events'[i] = events[i]
  BY TrailKept
<1>2. Chained(k)'
  BY <1>1 DEF Explained, Chained
<1>3. \A v : LastNames(k, v) => LastNames(k, v)'
  BY <1>1 DEF LastNames
<1> QED
  BY <1>2, <1>3 DEF Explained

\* The row is written: the trail still names what was there before.
LEMMA WriteIsOwed ==
  ASSUME TypeOK, NEW r \in Requests, Knows(r), NEW k \in RowKeys, Explained(k),
         \A q \in Requests : pc[q] \in Running => q = r,
         Commit(r) \/ ElideCommit(r)
  PROVE  Explained(k)'
<1> USE DEF Running, Persisting, Goto
<1>0. /\ pc[r] = "commit" /\ pc' = [pc EXCEPT ![r] = "reread"]
      /\ events' = events /\ sess' = sess
      /\ rows' = rows \/ rows' = [rows EXCEPT ![r.key] = r.to]
  BY DEF Commit, ElideCommit, WriteRow
<1>1. CASE k # r.key
  <2>1. rows'[k] = rows[k]
    BY <1>0, <1>1 DEF TypeOK
  <2>2. View(rows', k) = View(rows, k)
    BY <2>1, ViewOfRow
  <2>3. \A q \in Requests : Owes(q, k)' <=> Owes(q, k)
    BY <1>0, <1>1 DEF Owes, TypeOK
  <2> QED BY <1>0, <2>2, <2>3, StillExplained
<1>2. CASE k = r.key
  <2>1. \A q \in Requests : ~Owes(q, k) /\ (Owes(q, k)' <=> q = r)
    BY <1>0, <1>2 DEF Owes, TypeOK
  <2>2. LastNames(k, View(rows, k)) /\ Chained(k)
    BY <2>1 DEF Explained
  <2>3. View(rows, k) = sess'[r].before
    BY <1>0, <1>2 DEF Knows
  <2>4. Chained(k)'
    BY <1>0, <2>2 DEF Chained, ChangesOf
  <2>5. \A q \in Requests : Owes(q, k)' => LastNames(k, sess[q].before)'
    BY <1>0, <2>1, <2>2, <2>3 DEF LastNames, ChangesOf
  <2> QED BY <2>1, <2>4, <2>5 DEF Explained
<1> QED BY <1>1, <1>2

\* The change is recorded: it starts from what the trail named and ends with the row.
LEMMA RecordExplains ==
  ASSUME TypeOK, NEW r \in Requests, Knows(r), NEW k \in RowKeys, Explained(k),
         \A q \in Requests : pc[q] \in Running => q = r,
         RecordChange(r)
  PROVE  Explained(k)'
<1> USE DEF Running, Persisting, Goto, Answer
<1>0. /\ pc[r] = "record" /\ pc' = [pc EXCEPT ![r] = "done"]
      /\ RecordEvent(r, ChangeEvent(r.key)) /\ rows' = rows /\ sess' = sess
  BY DEF RecordChange, Recorded
<1>1. CASE k # r.key
  <2>1. ChangeEvent(r.key) \in EventTypes \ {ChangeEvent(k)}
    BY <1>1 DEF ChangeEvent, EventTypes, RowKeys
  <2>2. \A q \in Requests : Owes(q, k)' <=> Owes(q, k)
    BY <1>0, <1>1 DEF Owes, TypeOK
  <2> QED BY <1>0, <2>1, <2>2, StillExplained
<1>2. CASE k = r.key
  <2> DEFINE e == [type |-> ChangeEvent(k), by |-> r,
                   before |-> sess[r].before, after |-> sess[r].after]
             n == Len(events)
             C == ChangesOf(k)
             D == ChangesOf(k)'
  <2>1. events \in Seq(EventRecords) /\ e \in EventRecords /\ events' = Append(events, e)
    BY <1>0, <1>2 DEF TypeOK, EventRecords, RecordEvent, ChangeEvent, EventTypes
  <2>2. /\ e.type = ChangeEvent(k) /\ e.by.to = r.to /\ e.before = sess[r].before
        /\ e.after = r.to
    BY <1>0 DEF Knows
  <2> HIDE DEF e
  <2>3. /\ n \in Nat /\ DOMAIN events = 1..n /\ DOMAIN events' = 1..(n + 1)
        /\ events'[n + 1] = e
        /\ \A i \in 1..n : events'[i] = events[i]
    BY <2>1
  <2>4. /\ D = C \union {n + 1} /\ C \subseteq 1..n
        /\ \A i \in C : events'[i] = events[i]
    BY <2>2, <2>3 DEF ChangesOf
  <2>5. Owes(r, k) /\ \A q \in Requests : ~Owes(q, k)'
    BY <1>0, <1>2 DEF Owes, TypeOK
  <2>6. Chained(k) /\ LastNames(k, e.before)
    BY <2>2, <2>5 DEF Explained
  <2> HIDE DEF C, D, n
  <2>o. /\ n + 1 \in D /\ C \subseteq D /\ D \subseteq C \union {n + 1}
        /\ \A m \in C : m \in Int /\ m < n + 1
    <3>1. n \in Nat
      BY <2>3
    <3> QED BY <2>4, <3>1
  <2>7. Chained(k)'
    <3> SUFFICES ASSUME NEW i \in D, NEW j \in D
                 PROVE  /\ events'[i].after = events'[i].by.to
                        /\ i < j /\ (\A m \in D : ~(i < m /\ m < j))
                             => events'[j].before = events'[i].after
      BY DEF Chained, D
    <3>1. events'[i].after = events'[i].by.to
      BY <2>2, <2>3, <2>4, <2>6 DEF Chained, C
    <3>2. ASSUME i < j, \A m \in D : ~(i < m /\ m < j)
          PROVE  events'[j].before = events'[i].after
      <4>1. i \in C
        BY <2>3, <2>4, <3>2
      <4>2. CASE j = n + 1
        <5>1. \A m \in C : m <= i
          BY <2>o, <3>2, <4>1, <4>2
        <5>2. events[i].after = e.before
          BY <2>6, <4>1, <5>1 DEF LastNames, C
        <5> QED BY <2>3, <2>4, <4>1, <4>2, <5>2
      <4>3. CASE j # n + 1
        <5>1. j \in C /\ \A m \in C : ~(i < m /\ m < j)
          BY <2>4, <3>2, <4>3
        <5>2. events[j].before = events[i].after
          BY <2>6, <3>2, <4>1, <5>1 DEF Chained, C
        <5> QED BY <2>4, <4>1, <5>1, <5>2
      <4> QED BY <4>2, <4>3
    <3> QED BY <3>1, <3>2
  <2>8. LastNames(k, View(rows, k))'
    <3>1. View(rows', k) = r.to
      BY <1>0, <1>2, WrittenIsViewed DEF Knows
    <3>2. ASSUME NEW i \in D, \A j \in D : j <= i PROVE i = n + 1
      <4>1. n + 1 <= i
        BY <2>o, <3>2
      <4>2. i \notin C
        <5>1. n + 1 \in Int
          BY <2>3
        <5> QED BY <2>o, <4>1, <5>1
      <4> QED BY <2>o, <4>2
    <3>3. events'[n + 1].after = r.to
      BY <2>2, <2>3
    <3>4. \A i \in D : (\A j \in D : j <= i) => events'[i].after = View(rows', k)
      BY <3>1, <3>2, <3>3
    <3> QED BY <3>4 DEF LastNames, D
  <2> QED BY <2>5, <2>7, <2>8 DEF Explained
<1> QED BY <1>1, <1>2

\* A handler that records nothing and writes nothing owes what it owed.
LEMMA QuietStep ==
  ASSUME TypeOK, NEW r \in Requests, NEW k \in RowKeys, Explained(k),
         events' = events \/ RecordEvent(r, "preflight_blocked"), rows' = rows,
         NEW l, pc' = [pc EXCEPT ![r] = l],
         pc[r] \in {"reread", "record"} <=> l \in {"reread", "record"},
         \A q \in Requests : q # r => sess'[q] = sess[q],
         pc[r] \in {"reread", "record"} => sess'[r].before = sess[r].before
  PROVE  Explained(k)'
<1>1. \A q \in Requests : /\ Owes(q, k)' <=> Owes(q, k)
                          /\ Owes(q, k) => sess'[q].before = sess[q].before
  BY DEF Owes, TypeOK
<1>2. "preflight_blocked" \in EventTypes \ {ChangeEvent(k)}
  BY DEF ChangeEvent, EventTypes
<1> QED
  BY <1>1, <1>2, StillExplained

\* Once a request was answered "unavailable" or its reply was lost, it stays so.
LEMMA FaultsStay ==
  ASSUME TypeOK, TraceInv, [Next]_vars, Faultless'
  PROVE  Faultless
<1> USE DEF Running, Persisting, Goto, Answer
<1> SUFFICES ASSUME NEW q \in Requests, reply[q] \in {"unavailable", "lost"}
             PROVE  reply'[q] = reply[q]
  BY DEF Faultless
<1>0. pc[q] = "done"
  BY DEF TraceInv, RequestTrace
<1>1. CASE UNCHANGED vars
  BY <1>1 DEF vars
<1>2. CASE Next
  <2> SUFFICES ASSUME NEW r \in Requests, Start(r) \/ Handler(r) \/ Fail(r) \/ Crash
               PROVE  reply'[q] = reply[q]
    BY <1>2 DEF Next, Crash, InFlight
  <2>1. CASE Start(r)
    BY <2>1, <1>0 DEF Start
  <2>2. CASE Handler(r) \/ Fail(r)
    <3>1. pc[r] # "done" /\ (reply' = reply \/ \E v : reply' = [reply EXCEPT ![r] = v])
      BY <2>2 DEF Handler, Fail, ReadMode, DecideMode, PreFlight, RecordBlocked, Recorded,
                  ReadBefore, Locate, Commit, ElideCommit, CollideInsert, Reread, RecordChange
    <3> QED BY <3>1, <1>0 DEF TypeOK
  <2>3. CASE Crash
    BY <2>3, <1>0 DEF Crash, InFlight
  <2> QED BY <2>1, <2>2, <2>3
<1> QED
  BY <1>1, <1>2

\* Each step that leaves everybody answered leaves the rows explained.
LEMMA ExplainedStep ==
  ASSUME MaxInFlight = 1, TypeOK, TraceInv, AuditInv, [Next]_vars, Faultless',
         NEW k \in RowKeys
  PROVE  Explained(k)'
<1> USE DEF Running, Persisting, Goto, Answer
<1>0. Explained(k) /\ Alone /\ \A q \in Requests : Knows(q)
  BY FaultsStay DEF AuditInv
<1>1. CASE UNCHANGED vars
  BY <1>0, <1>1 DEF vars, Explained, Chained, LastNames, ChangesOf, Owes
<1>2. CASE Next
  <2> SUFFICES ASSUME NEW r \in Requests, Start(r) \/ Handler(r) \/ Fail(r) \/ Crash
               PROVE  Explained(k)'
    BY <1>2 DEF Next, Crash, InFlight
  <2>a. pc[r] \in Running => \A q \in Requests : pc[q] \in Running => q = r
    BY <1>0, AloneStep
  <2>1. CASE Start(r)
    BY <2>1, <1>0, QuietStep DEF Start
  <2>2. CASE ReadMode(r)
    BY <2>2, <1>0, QuietStep DEF ReadMode
  <2>3. CASE DecideMode(r)
    <3>1. \E l \in {"done", "preflight", "read_before"} : pc' = [pc EXCEPT ![r] = l]
      BY <2>3 DEF DecideMode
    <3> QED BY <2>3, <3>1, <1>0, QuietStep DEF DecideMode
  <2>4. CASE PreFlight(r)
    <3>1. \E l \in {"done", "block_event", "read_before"} : pc' = [pc EXCEPT ![r] = l]
      BY <2>4 DEF PreFlight
    <3> QED BY <2>4, <3>1, <1>0, QuietStep DEF PreFlight
  <2>5. CASE RecordBlocked(r)
    <3>1. pc' = [pc EXCEPT ![r] = "done"]
      BY <2>5 DEF RecordBlocked, Recorded
    <3> QED BY <2>5, <3>1, <1>0, QuietStep DEF RecordBlocked
  <2>6. CASE ReadBefore(r)
    BY <2>6, <1>0, QuietStep DEF ReadBefore, TypeOK
  <2>7. CASE Locate(r)
    BY <2>7, <1>0, QuietStep DEF Locate, TypeOK
  <2>8. CASE Commit(r) \/ ElideCommit(r)
    <3>1. pc[r] \in Running
      BY <2>8 DEF Commit, ElideCommit
    <3> QED BY <2>8, <2>a, <3>1, <1>0, WriteIsOwed
  <2>9. CASE CollideInsert(r)
    BY <2>9, <1>0, QuietStep DEF CollideInsert
  <2>10. CASE Reread(r)
    BY <2>10, <1>0, QuietStep DEF Reread, TypeOK
  <2>11. CASE RecordChange(r)
    <3>1. pc[r] \in Running
      BY <2>11 DEF RecordChange
    <3> QED BY <2>11, <2>a, <3>1, <1>0, RecordExplains
  <2>12. CASE Fail(r)
    <3>1. reply'[r] = "unavailable"
      BY <2>12 DEF Fail, TypeOK
    <3> QED BY <3>1 DEF Faultless
  <2>13. CASE Crash
    <3>1. PICK q \in Requests : q \in InFlight
      BY <2>13 DEF Crash, InFlight
    <3>2. reply'[q] = "lost"
      BY <2>13, <3>1 DEF Crash
    <3> QED BY <3>2 DEF Faultless
  <2> QED
    BY <2>1, <2>2, <2>3, <2>4, <2>5, <2>6, <2>7, <2>8, <2>9, <2>10, <2>11, <2>12, <2>13
       DEF Handler
<1> QED
  BY <1>1, <1>2

\* With one handler at a time the audit trail explains what the rows hold:
\* every change starts from what the one before it left, ends with what was asked
\* for, and the last one names the value persisted (the before and after that
\* set_mode and set_live_lock write into their events).
THEOREM TrailExplainsRows == MaxInFlight = 1 => (Spec => []AuditTrailExplainsRows)
<1> SUFFICES ASSUME MaxInFlight = 1 PROVE Spec => []AuditTrailExplainsRows
  OBVIOUS
<1>1. Init => AuditInv
  <2> SUFFICES ASSUME Init PROVE AuditInv
    OBVIOUS
  <2>1. InFlight = {} /\ \A k \in RowKeys : ChangesOf(k) = {}
    BY DEF Init, InFlight, Running, Persisting, ChangesOf
  <2> QED
    BY <2>1 DEF Init, AuditInv, Alone, Knows, Explained, Chained, LastNames
<1>2. IInv /\ TraceInv /\ AuditInv /\ [Next]_vars => AuditInv'
  BY AloneStep, KnowsStep, ExplainedStep DEF IInv, AuditInv
<1>3. AuditInv => AuditTrailExplainsRows
  <2> SUFFICES ASSUME AuditInv, Quiet, NEW k \in RowKeys
               PROVE  Chained(k) /\ LastNames(k, View(rows, k))
    BY DEF AuditTrailExplainsRows, Chained, LastNames
  <2>1. Explained(k)
    BY DEF AuditInv, Quiet, Faultless
  <2>2. \A r \in Requests : ~Owes(r, k)
    BY DEF Quiet, InFlight, Owes, Running, Persisting
  <2> QED
    BY <2>1, <2>2 DEF Explained
<1> QED
  BY Inductive, Traced, <1>1, <1>2, <1>3, PTL DEF Spec
=============================================================================
