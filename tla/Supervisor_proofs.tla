-------------------------- MODULE Supervisor_proofs --------------------------
(***************************************************************************)
(* The supervisor process.  For any workers, any restart limit, with and   *)
(* without max_cycles and for any number of Ctrl+C: the types, the restart *)
(* budget, and that the threads of run_supervisor implement Supervision.   *)
(* And for any of its threads that notify, any alerts, window and lag: two *)
(* deliveries of one alert are a window apart and no silence is longer     *)
(* than that, up to the age of a caller's clock reading.                   *)
(***************************************************************************)
EXTENDS Supervisor, AlertDedup, TLAPS

USE SupervisorAssumption

\* Nothing has been started.
LEMMA InitIInv == Init => IInv
<1> SUFFICES ASSUME Init PROVE IInv
  OBVIOUS
<1>1. restarts \in [Workers -> 0..MaxRestarts] /\ runs \in [Workers -> Nat]
  BY DEF Init
<1>2. worker \in [Workers -> Born \union {"unborn"}]
  BY DEF Init
<1>3. helper \in [Helpers -> {"unborn", "work", "wait", "done"}]
  BY DEF Init
<1>4. TypeOK
  BY <1>1, <1>2, <1>3 DEF Init, TypeOK
<1>5. StartedAreBorn /\ BudgetKept /\ FailuresAreFinal
  BY DEF Init, StartedAreBorn, BudgetKept, FailuresAreFinal
<1> QED
  BY <1>4, <1>5 DEF IInv

\* The steps of a worker.
LEMMA WorkerStep ==
  ASSUME IInv, NEW c \in Workers, Worker(c)
  PROVE  IInv'
<1> USE DEF IInv, TypeOK, StartedAreBorn, BudgetKept, FailuresAreFinal, Born, OnlyWorker
<1>1. CASE LoopReturns(c)
  BY <1>1 DEF LoopReturns
<1>2. CASE LoopRaises(c)
  BY <1>2 DEF LoopRaises, CanRestart
<1>3. CASE Retry(c)
  BY <1>3 DEF Retry, Enter
<1>4. CASE GiveUp(c)
  BY <1>4 DEF GiveUp
<1>5. CASE SetStop(c)
  BY <1>5 DEF SetStop
<1>6. CASE ReportError(c)
  BY <1>6 DEF ReportError
<1> QED
  BY <1>1, <1>2, <1>3, <1>4, <1>5, <1>6 DEF Worker

\* Helpers, main thread and operator.
LEMMA OtherStep ==
  ASSUME IInv, (\E h \in Helpers : Helper(h)) \/ Main \/ Interrupt
  PROVE  IInv'
<1> USE DEF IInv, TypeOK, StartedAreBorn, BudgetKept, FailuresAreFinal, Born, workerVars,
            OnlyMain, OnlyHelper
<1>1. ASSUME NEW h \in Helpers, Helper(h)
      PROVE  IInv'
  <2>1. helper' \in [Helpers -> {"unborn", "work", "wait", "done"}]
    BY <1>1 DEF Helper, HelperWorks, HelperWaits, HelperEnds
  <2>2. UNCHANGED <<bounded, stop, workerVars, main, started, stopped, presses>>
    BY <1>1 DEF Helper, HelperWorks, HelperWaits, HelperEnds
  <2> QED
    BY <2>1, <2>2
<1>2. ASSUME NEW c \in Workers, StartWorker(c)
      PROVE  IInv'
  BY <1>2 DEF StartWorker, Enter
<1>3. CASE StartHelpers
  BY <1>3 DEF StartHelpers, Helpers
<1>4. CASE LeaveWatch
  BY <1>4 DEF LeaveWatch
<1>5. CASE Join
  BY <1>5 DEF Join
<1>6. CASE JoinInterrupted
  BY <1>6 DEF JoinInterrupted
<1>7. CASE Interrupt
  <2>1. presses' \in Nat /\ presses' > 0
    BY <1>7 DEF Interrupt
  <2>2. /\ main' \in {"interrupted", "aborted"} /\ stop' \in BOOLEAN
        /\ UNCHANGED <<bounded, worker, restarts, retry, exc, runs, started, helper, stopped>>
    BY <1>7 DEF Interrupt
  <2> QED
    BY <2>1, <2>2
<1> QED
  BY <1>1, <1>2, <1>3, <1>4, <1>5, <1>6, <1>7 DEF Main

\* The inductive invariant holds of every behaviour.
LEMMA Inductive == Spec => []IInv
<1>1. IInv /\ [Next]_vars => IInv'
  <2>1. IInv /\ Next => IInv'
    BY WorkerStep, OtherStep DEF Next
  <2>2. IInv /\ UNCHANGED vars => IInv'
    BY DEF vars, workerVars, IInv, TypeOK, StartedAreBorn, BudgetKept, FailuresAreFinal
  <2> QED
    BY <2>1, <2>2
<1> QED
  BY InitIInv, <1>1, PTL DEF Spec

\* The type invariant.
THEOREM TypeCorrect == Spec => []TypeOK
<1>1. IInv => TypeOK
  BY DEF IInv
<1> QED
  BY Inductive, <1>1, PTL

\* No sequence of crashes and retries enters a loop more often than allowed.
THEOREM RestartsAreBounded == Spec => []RestartBudget
<1>1. IInv => RestartBudget
  BY DEF IInv, TypeOK, BudgetKept, RestartBudget, Born
<1> QED
  BY Inductive, <1>1, PTL

\* A worker's step gives up, ends, or is invisible to the caller.
LEMMA WorkerSimulates ==
  ASSUME IInv, NEW c \in Workers, Worker(c)
  PROVE  \/ Abstract!GiveUp(c) \/ Abstract!End(c)
         \/ UNCHANGED <<worker, exc, main, presses>>
         \/ /\ {d \in Workers : ~Done(d)}' = {d \in Workers : ~Done(d)}
            /\ UNCHANGED <<exc, main, presses>>
<1> USE DEF IInv, TypeOK, FailuresAreFinal, Born, OnlyWorker, Done
<1>1. CASE LoopReturns(c) \/ ReportError(c)
  <2>1. /\ worker' = [worker EXCEPT ![c] = "done"] /\ worker[c] # "done"
        /\ UNCHANGED <<exc, main, presses>>
    BY <1>1 DEF LoopReturns, ReportError
  <2>2. Abstract!End(c)
    BY <2>1 DEF Abstract!End
  <2> QED
    BY <2>2
<1>2. CASE GiveUp(c)
  <2>1. /\ worker[c] = "loop" /\ worker' = [worker EXCEPT ![c] = "giveup"]
        /\ exc' = [exc EXCEPT ![c] = TRUE] /\ ~exc[c]
        /\ UNCHANGED <<main, presses>>
    BY <1>2 DEF GiveUp
  <2>2. Abstract!GiveUp(c)
    BY <2>1 DEF Abstract!GiveUp
  <2> QED
    BY <2>2
<1>3. CASE LoopRaises(c) \/ Retry(c) \/ SetStop(c)
  BY <1>3 DEF LoopRaises, Retry, SetStop, Enter
<1> QED
  BY <1>1, <1>2, <1>3 DEF Worker

\* What run_supervisor does to its caller is what Supervision allows.
LEMMA MainSimulates ==
  ASSUME IInv, Main \/ Interrupt
  PROVE  \/ Abstract!Return \/ Abstract!Raise \/ Abstract!Press \/ Abstract!Abandon
         \/ /\ {d \in Workers : ~Done(d)}' = {d \in Workers : ~Done(d)}
            /\ UNCHANGED <<exc, presses>>
            /\ main \notin {"returned", "raised", "aborted"}
            /\ main' \notin {"returned", "raised", "aborted"}
<1> USE DEF IInv, TypeOK, FailuresAreFinal, StartedAreBorn, Born, workerVars, OnlyMain, Done,
            WorkersDone
<1>1. ASSUME NEW c \in Workers, StartWorker(c)
      PROVE  /\ {d \in Workers : ~Done(d)}' = {d \in Workers : ~Done(d)}
             /\ UNCHANGED <<exc, presses, main>> /\ main = "starting"
  BY <1>1 DEF StartWorker, Enter
<1>2. CASE StartHelpers \/ LeaveWatch
  BY <1>2 DEF StartHelpers, LeaveWatch
<1>3. CASE Join
  <2>1. CASE \E c \in Workers : exc[c]
    <3>1. Abstract!Raise
      BY <1>3, <2>1 DEF Join, Abstract!Raise
    <3> QED
      BY <3>1
  <2>2. CASE ~\E c \in Workers : exc[c]
    <3>1. Abstract!Return
      BY <1>3, <2>2 DEF Join, Abstract!Return
    <3> QED
      BY <3>1
  <2> QED
    BY <2>1, <2>2
<1>4. CASE JoinInterrupted
  <2>1. Abstract!Return
    BY <1>4 DEF JoinInterrupted, Abstract!Return
  <2> QED
    BY <2>1
<1>5. CASE Interrupt
  <2>1. presses' = presses + 1 /\ presses \in Nat
    BY <1>5 DEF Interrupt
  <2>2. (presses > 0)' = TRUE
    BY <2>1
  <2>3. CASE main = "watch"
    <3>1. Abstract!Press
      BY <1>5, <2>2, <2>3 DEF Interrupt, Abstract!Press
    <3> QED
      BY <3>1
  <2>4. CASE main # "watch"
    <3>1. Abstract!Abandon
      BY <1>5, <2>2, <2>4 DEF Interrupt, Abstract!Abandon
    <3> QED
      BY <3>1
  <2> QED
    BY <2>3, <2>4
<1> QED
  BY <1>1, <1>2, <1>3, <1>4, <1>5 DEF Main

\* The threads implement what run_supervisor promises its caller.
THEOREM ThreadsImplementSupervision == Spec => ImplementsSupervision
<1> DEFINE alive == {c \in Workers : ~Done(c)}
           failed == {c \in Workers : exc[c]}
           pressed == presses > 0
           outcome == IF main \in {"returned", "raised", "aborted"} THEN main ELSE "running"
<1>1. Init => Abstract!SupervisionInit
  BY DEF Init, Abstract!SupervisionInit, Done
<1>2. IInv /\ [Next]_vars => [Abstract!SupervisionNext]_<<alive, failed, pressed, outcome>>
  <2> SUFFICES ASSUME IInv, [Next]_vars
               PROVE  [Abstract!SupervisionNext]_<<alive, failed, pressed, outcome>>
    OBVIOUS
  <2>1. CASE UNCHANGED vars
    BY <2>1 DEF vars, workerVars, Done
  <2>2. ASSUME NEW c \in Workers, Worker(c)
        PROVE  [Abstract!SupervisionNext]_<<alive, failed, pressed, outcome>>
    BY <2>2, WorkerSimulates DEF Abstract!SupervisionNext, Done
  <2>3. ASSUME NEW h \in Helpers, Helper(h)
        PROVE  [Abstract!SupervisionNext]_<<alive, failed, pressed, outcome>>
    BY <2>3 DEF Helper, HelperWorks, HelperWaits, HelperEnds, OnlyHelper, workerVars, Done
  <2>4. CASE Main \/ Interrupt
    BY <2>4, MainSimulates DEF Abstract!SupervisionNext
  <2> QED
    BY <2>1, <2>2, <2>3, <2>4 DEF Next
<1> QED
  BY Inductive, <1>1, <1>2, PTL DEF Spec, ImplementsSupervision, Abstract!SupervisionSpec

-----------------------------------------------------------------------------
(* The deduplicator that the threads of the process share. *)

USE WindowAssumption, LagAssumption

\* A call in progress has an alert and an age within the bound.
LEMMA AskedCall ==
  ASSUME DedupTypeOK, NEW t \in Threads, calls[t].state = "asked"
  PROVE  /\ calls[t] = [state |-> "asked", alert |-> calls[t].alert, lag |-> calls[t].lag]
         /\ calls[t].alert \in Keys
         /\ calls[t].lag \in 0..MaxLag
<1>1. calls[t] \in Calls
  BY DEF DedupTypeOK
<1>2. calls[t] \in [state : {"asked"}, alert : Keys, lag : 0..MaxLag]
  BY <1>1 DEF Calls, NoCall
<1> QED BY <1>2

\* An answer is a call again.
LEMMA AnswerTyped ==
  ASSUME DedupTypeOK, NEW t \in Threads, NEW told \in BOOLEAN,
         calls[t].state = "asked", Answer(t, told)
  PROVE  calls' \in [Threads -> Calls]
<1>1. calls[t].alert \in Keys /\ calls[t].lag \in 0..MaxLag
  BY AskedCall
<1>2. [state |-> "told", alert |-> calls[t].alert, lag |-> calls[t].lag, notify |-> told] \in Calls
  BY <1>1 DEF Calls
<1> QED BY <1>2 DEF DedupTypeOK, Answer

\* What eviction leaves, and what it takes.
LEMMA EvictKeeps ==
  ASSUME DedupTypeOK, NEW lag \in 0..MaxLag
  PROVE  /\ DOMAIN Evict(lag) \subseteq DOMAIN entries
         /\ \A k \in DOMAIN Evict(lag) : Evict(lag)[k] = entries[k] /\ entries[k] + lag > 0
         /\ \A k \in DOMAIN entries : k \notin DOMAIN Evict(lag) => entries[k] + lag <= 0
BY DEF DedupTypeOK, Evict

\* The table after an eviction is typed and still tells the deliveries.
LEMMA EvictionIsSound ==
  ASSUME DedupIInv, NEW lag \in 0..MaxLag
  PROVE  /\ DOMAIN Evict(lag) \subseteq Keys
         /\ \A k \in DOMAIN Evict(lag) :
              Evict(lag)[k] \in (-MaxLag)..Window /\ Evict(lag)[k] + since[k] <= Window
         /\ \A k \in Keys :
              IF k \in DOMAIN Evict(lag)
                THEN Evict(lag)[k] + since[k] >= Window - MaxLag \/ since[k] >= Window
                ELSE since[k] >= Window - MaxLag
<1>1. DedupTypeOK /\ EntriesTellDeliveries
  BY DEF DedupIInv
<1>2. \A k \in DOMAIN Evict(lag) : k \in DOMAIN entries /\ Evict(lag)[k] = entries[k]
  BY <1>1, EvictKeeps
<1>3. \A k \in DOMAIN entries : k \in Keys /\ entries[k] \in (-MaxLag)..Window
  BY <1>1 DEF DedupTypeOK
<1>4. \A k \in Keys : since[k] \in 0..Ever
  BY <1>1 DEF DedupTypeOK
<1>5. ASSUME NEW k \in Keys, k \notin DOMAIN Evict(lag) PROVE since[k] >= Window - MaxLag
  <2>1. CASE k \notin DOMAIN entries
    BY <1>1, <2>1 DEF EntriesTellDeliveries
  <2>2. CASE k \in DOMAIN entries
    <3>1. entries[k] + lag <= 0
      BY <1>1, <1>5, <2>2, EvictKeeps
    <3>2. entries[k] + since[k] >= Window - MaxLag \/ since[k] >= Window
      BY <1>1, <2>2 DEF EntriesTellDeliveries
    <3> QED BY <1>3, <1>4, <2>2, <3>1, <3>2 DEF Ever
  <2> QED BY <2>1, <2>2
<1>6. ASSUME NEW k \in DOMAIN Evict(lag)
      PROVE  /\ k \in Keys
             /\ Evict(lag)[k] \in (-MaxLag)..Window /\ Evict(lag)[k] + since[k] <= Window
             /\ Evict(lag)[k] + since[k] >= Window - MaxLag \/ since[k] >= Window
  BY <1>1, <1>2, <1>3, <1>6 DEF EntriesTellDeliveries
<1> QED BY <1>5, <1>6

-----------------------------------------------------------------------------
LEMMA DedupInitially == DedupInit => DedupIInv
<1> SUFFICES ASSUME DedupInit PROVE DedupIInv
  OBVIOUS
<1>1. DOMAIN entries = {}
  BY DEF DedupInit
<1>2. DedupTypeOK
  BY <1>1 DEF DedupInit, DedupTypeOK, Calls, NoCall, Ever
<1>3. EntriesTellDeliveries
  BY <1>1 DEF DedupInit, EntriesTellDeliveries, Ever
<1> QED BY <1>2, <1>3 DEF DedupIInv

LEMMA TickInv == ASSUME DedupIInv, Tick PROVE DedupIInv'
<1>1. DedupTypeOK /\ EntriesTellDeliveries
  BY DEF DedupIInv
<1>2. DOMAIN entries' = DOMAIN entries
      /\ \A k \in DOMAIN entries : entries'[k] = AtLeast(entries[k] - 1, -MaxLag)
  BY DEF Tick
<1>3. \A k \in DOMAIN entries : k \in Keys /\ entries[k] \in (-MaxLag)..Window
  BY <1>1 DEF DedupTypeOK
<1>4. \A k \in Keys : since[k] \in 0..Ever /\ since'[k] = AtMost(since[k] + 1, Ever)
  BY <1>1 DEF DedupTypeOK, Tick
<1>5. calls' \in [Threads -> Calls]
  <2>1. ASSUME NEW t \in Threads PROVE calls'[t] \in Calls
    <3>1. calls[t] \in Calls /\ calls'[t] = IF calls[t].state = "asked"
            THEN [calls[t] EXCEPT !.lag = @ + 1] ELSE calls[t]
      BY <1>1 DEF DedupTypeOK, Tick
    <3>2. CASE calls[t].state = "asked"
      <4>1. calls[t].lag \in 0..MaxLag /\ calls[t].lag < MaxLag
        BY <1>1, <3>2, AskedCall DEF Tick
      <4>2. calls'[t] = [state |-> "asked", alert |-> calls[t].alert, lag |-> calls[t].lag + 1]
        BY <1>1, <3>1, <3>2, AskedCall
      <4>3. calls[t].alert \in Keys
        BY <1>1, <3>2, AskedCall
      <4>4. calls[t].lag + 1 \in 0..MaxLag
        BY <4>1
      <4> QED BY <4>2, <4>3, <4>4 DEF Calls
    <3>3. CASE calls[t].state # "asked"
      BY <3>1, <3>3
    <3> QED BY <3>2, <3>3
  <2> QED BY <2>1 DEF Tick
<1>6. DedupTypeOK'
  <2>1. since' \in [Keys -> 0..Ever]
    BY <1>1 DEF DedupTypeOK, Tick, AtMost, Ever
  <2>2. \A k \in DOMAIN entries' : entries'[k] \in (-MaxLag)..Window
    BY <1>2, <1>3 DEF AtLeast
  <2> QED BY <1>2, <1>3, <1>5, <2>1, <2>2 DEF DedupTypeOK
<1>7. EntriesTellDeliveries'
  <2>1. ASSUME NEW k \in Keys
        PROVE  /\ k \in DOMAIN entries => entries'[k] + since'[k] <= Window
               /\ k \in DOMAIN entries => entries'[k] + since'[k] >= Window - MaxLag \/ since'[k] >= Window
               /\ k \notin DOMAIN entries => since'[k] >= Window - MaxLag
    <3>1. CASE k \notin DOMAIN entries
      BY <1>1, <1>4, <3>1 DEF EntriesTellDeliveries, AtMost, Ever
    <3>2. CASE k \in DOMAIN entries
      BY <1>1, <1>2, <1>3, <1>4, <3>2 DEF EntriesTellDeliveries, AtMost, AtLeast, Ever
    <3> QED BY <3>1, <3>2
  <2> QED BY <1>2, <2>1 DEF EntriesTellDeliveries
<1> QED BY <1>6, <1>7 DEF DedupIInv

LEMMA SuppressInv == ASSUME DedupIInv, NEW t \in Threads, Suppress(t) PROVE DedupIInv'
<1>1. DedupTypeOK /\ calls[t].lag \in 0..MaxLag
  BY AskedCall DEF DedupIInv, Suppress
<1>2. entries' = Evict(calls[t].lag) /\ since' = since
  BY DEF Suppress
<1>3. calls' \in [Threads -> Calls]
  BY <1>1, AnswerTyped DEF Suppress
<1>4. DedupTypeOK'
  BY <1>1, <1>2, <1>3, EvictionIsSound DEF DedupTypeOK
<1>5. EntriesTellDeliveries'
  BY <1>1, <1>2, EvictionIsSound DEF EntriesTellDeliveries
<1> QED BY <1>4, <1>5 DEF DedupIInv

LEMMA AdmitInv == ASSUME DedupIInv, NEW t \in Threads, Admit(t) PROVE DedupIInv'
<1> DEFINE lag == calls[t].lag
           alert == calls[t].alert
<1>1. DedupTypeOK /\ lag \in 0..MaxLag /\ alert \in Keys
  BY AskedCall DEF DedupIInv, Admit
<1>2. /\ entries' = Remember(Evict(lag), alert, Window - lag)
      /\ since' = [since EXCEPT ![alert] = 0]
      /\ alert \notin DOMAIN Evict(lag)
  BY DEF Admit, Key
<1>3. calls' \in [Threads -> Calls]
  BY <1>1, AnswerTyped DEF Admit
<1>4. /\ DOMAIN entries' = DOMAIN Evict(lag) \union {alert}
      /\ entries'[alert] = Window - lag
      /\ \A k \in DOMAIN Evict(lag) : entries'[k] = Evict(lag)[k]
  BY <1>2 DEF Remember
<1>5. since'[alert] = 0 /\ \A k \in Keys : k # alert => since'[k] = since[k]
  BY <1>1, <1>2 DEF DedupTypeOK
<1>6. since' \in [Keys -> 0..Ever]
  BY <1>1, <1>2 DEF DedupTypeOK, Ever
<1>7. DOMAIN Evict(lag) \subseteq Keys
      /\ \A k \in DOMAIN Evict(lag) : Evict(lag)[k] \in (-MaxLag)..Window
  BY <1>1, EvictionIsSound
<1>8. DedupTypeOK'
  <2>1. Window - lag \in (-MaxLag)..Window
    BY <1>1
  <2> HIDE DEF lag, alert
  <2> QED BY <1>1, <1>3, <1>4, <1>6, <1>7, <2>1 DEF DedupTypeOK
<1>9. EntriesTellDeliveries'
  <2>1. ASSUME NEW k \in Keys, k # alert
        PROVE  IF k \in DOMAIN entries'
                 THEN entries'[k] + since'[k] <= Window
                      /\ (entries'[k] + since'[k] >= Window - MaxLag \/ since'[k] >= Window)
                 ELSE since'[k] >= Window - MaxLag
    <3>1. since'[k] = since[k]
      BY <1>5, <2>1
    <3>2. k \in DOMAIN entries' <=> k \in DOMAIN Evict(lag)
      BY <1>4, <2>1
    <3> HIDE DEF lag, alert
    <3> QED BY <1>1, <1>4, <2>1, <3>1, <3>2, EvictionIsSound
  <2>2. entries'[alert] + since'[alert] <= Window
        /\ entries'[alert] + since'[alert] >= Window - MaxLag
    BY <1>1, <1>4, <1>5
  <2> HIDE DEF lag, alert
  <2> QED BY <1>4, <2>1, <2>2 DEF EntriesTellDeliveries
<1> QED BY <1>8, <1>9 DEF DedupIInv

LEMMA DedupStep == DedupIInv /\ [DedupNext]_dedupVars => DedupIInv'
<1> SUFFICES ASSUME DedupIInv, [DedupNext]_dedupVars PROVE DedupIInv'
  OBVIOUS
<1>1. CASE Tick
  BY <1>1, TickInv
<1>2. ASSUME NEW t \in Threads, NEW alert \in Keys, Ask(t, alert) PROVE DedupIInv'
  <2>1. [state |-> "asked", alert |-> alert, lag |-> 0] \in Calls
    BY <1>2 DEF Calls
  <2> QED BY <1>2, <2>1 DEF Ask, DedupIInv, DedupTypeOK, EntriesTellDeliveries
<1>3. ASSUME NEW t \in Threads, Suppress(t) PROVE DedupIInv'
  BY <1>3, SuppressInv
<1>4. ASSUME NEW t \in Threads, Admit(t) PROVE DedupIInv'
  BY <1>4, AdmitInv
<1>5. ASSUME NEW t \in Threads, Return(t) PROVE DedupIInv'
  BY <1>5 DEF Return, DedupIInv, DedupTypeOK, EntriesTellDeliveries, Calls
<1>6. CASE UNCHANGED dedupVars
  BY <1>6 DEF dedupVars, DedupIInv, DedupTypeOK, EntriesTellDeliveries
<1> QED BY <1>1, <1>2, <1>3, <1>4, <1>5, <1>6 DEF DedupNext

\* The deduplicator is type-correct for any threads and alerts: no entry outlives
\* the window (dedup.py:59-65).
THEOREM DedupTypeCorrect == DedupSpec => []DedupTypeOK
<1>1. DedupIInv => DedupTypeOK
  BY DEF DedupIInv
<1> QED BY <1>1, DedupInitially, DedupStep, PTL DEF DedupSpec

\* A caller that is answered did what the body under the lock does.
LEMMA AnswersComeFromTheLock ==
  ASSUME DedupIInv, DedupNext, NEW t \in Threads, NEW told \in BOOLEAN, Answered(t, told)
  PROVE  IF told THEN Admit(t) ELSE Suppress(t)
<1>1. calls[t].state = "asked" /\ calls'[t].state = "told" /\ calls'[t].notify = told
  BY DEF Answered
<1>2. calls \in [Threads -> Calls]
  BY DEF DedupIInv, DedupTypeOK
<1>3. ~Tick
  <2> SUFFICES ASSUME Tick PROVE FALSE
    OBVIOUS
  <2>1. calls'[t] = [calls[t] EXCEPT !.lag = @ + 1]
    BY <1>1 DEF Tick
  <2>2. calls[t] = [state |-> "asked", alert |-> calls[t].alert, lag |-> calls[t].lag]
    BY <1>1, AskedCall DEF DedupIInv
  <2>3. calls'[t].state = "asked"
    BY <2>1, <2>2
  <2> QED BY <1>1, <2>3
<1>4. ASSUME NEW u \in Threads, NEW alert \in Keys, Ask(u, alert) PROVE FALSE
  BY <1>1, <1>2, <1>4 DEF Ask
<1>5. ASSUME NEW u \in Threads, Return(u) PROVE FALSE
  BY <1>1, <1>2, <1>5 DEF Return, NoCall
<1>6. PICK u \in Threads : Suppress(u) \/ Admit(u)
  BY <1>3, <1>4, <1>5 DEF DedupNext
<1>7. u = t
  BY <1>1, <1>2, <1>6 DEF Suppress, Admit, Answer
<1>8. Suppress(t) => calls'[t].notify = FALSE
  BY <1>2 DEF Suppress, Answer
<1>9. Admit(t) => calls'[t].notify = TRUE
  BY <1>2 DEF Admit, Answer
<1> QED BY <1>1, <1>6, <1>7, <1>8, <1>9

\* Two notifications of one alert are a window apart, less the callers' lag,
\* whichever threads compete (dedup.py:51-65).
THEOREM DeliveriesAreSpaced == DedupSpec => SpacedDeliveries
<1>1. ASSUME DedupIInv, DedupNext, NEW t \in Threads, Answered(t, TRUE)
      PROVE  since[calls[t].alert] >= Window - MaxLag
  <2>1. Admit(t)
    BY <1>1, AnswersComeFromTheLock
  <2>2. calls[t].alert \in Keys /\ calls[t].lag \in 0..MaxLag
    BY <1>1, <2>1, AskedCall DEF DedupIInv, Admit
  <2>3. calls[t].alert \notin DOMAIN Evict(calls[t].lag)
    BY <2>1 DEF Admit, Key
  <2> QED BY <1>1, <2>2, <2>3, EvictionIsSound
<1>2. DedupIInv /\ [DedupNext]_dedupVars => [\A t \in Threads :
        Answered(t, TRUE) => since[calls[t].alert] >= Window - MaxLag]_dedupVars
  BY <1>1
<1> QED BY <1>2, DedupInitially, DedupStep, PTL DEF DedupSpec, SpacedDeliveries

\* An alert is kept back only within a window, plus the callers' lag, of a
\* delivery of the very same alert (dedup.py:57-58).
THEOREM SilenceEnds == DedupSpec => SilenceIsBounded
<1>1. ASSUME DedupIInv, DedupNext, NEW t \in Threads, Answered(t, FALSE)
      PROVE  since[calls[t].alert] < Window + MaxLag
  <2>1. Suppress(t)
    BY <1>1, AnswersComeFromTheLock
  <2>2. calls[t].alert \in Keys /\ calls[t].lag \in 0..MaxLag
    BY <1>1, <2>1, AskedCall DEF DedupIInv, Suppress
  <2>3. calls[t].alert \in DOMAIN Evict(calls[t].lag)
    BY <2>1 DEF Suppress, Key
  <2>4. since[calls[t].alert] \in 0..Ever
    BY <1>1, <2>2 DEF DedupIInv, DedupTypeOK
  <2>5. /\ entries[calls[t].alert] + calls[t].lag > 0
        /\ entries[calls[t].alert] \in (-MaxLag)..Window
        /\ entries[calls[t].alert] + since[calls[t].alert] <= Window
    BY <1>1, <2>2, <2>3, EvictKeeps DEF DedupIInv, DedupTypeOK, EntriesTellDeliveries
  <2> QED BY <2>2, <2>4, <2>5 DEF Ever
<1>2. DedupIInv /\ [DedupNext]_dedupVars => [\A t \in Threads :
        Answered(t, FALSE) => since[calls[t].alert] < Window + MaxLag]_dedupVars
  BY <1>1
<1> QED BY <1>2, DedupInitially, DedupStep, PTL DEF DedupSpec, SilenceIsBounded
=============================================================================
