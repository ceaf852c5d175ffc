------------------------------ MODULE Supervisor ------------------------------
(***************************************************************************)
(* One call of run_supervisor: the main thread, the ingestion and trading  *)
(* workers it starts, the heartbeat and monitor threads, and the operator  *)
(* who may press Ctrl+C.  The threads share the stop event; a worker whose *)
(* loop raises starts it again up to MaxRestarts times, then records the   *)
(* exhaustion, stores its exception and sets stop.                         *)
(*                                                                         *)
(* The loops themselves (TradingCycle for one) are reduced to when they    *)
(* end: they raise at any moment, return when stop is set, and return of   *)
(* themselves only when max_cycles is given.  A retry goes back to the     *)
(* loop whether stop is set or not.  Audit events whose failure the code   *)
(* swallows are recorded with the step they follow.                        *)
(***************************************************************************)
EXTENDS Naturals, FiniteSets

CONSTANTS
  Workers,       \* "ingestion" and "trading"
  MaxRestarts,   \* max_restarts
  MaxPresses     \* bound: how often Ctrl+C is pressed

ASSUME SupervisorAssumption ==
  /\ IsFiniteSet(Workers)
  /\ MaxRestarts \in Nat
  /\ MaxPresses \in Nat

VARIABLES
  bounded,    \* max_cycles is given
  stop,       \* the shared event
  worker,     \* where each worker thread stands
  restarts,   \* restart_count of each worker
  retry,      \* is_retry: this run of the loop follows a crash
  exc,        \* the worker stored an exception
  main,       \* where the main thread stands
  started,    \* the workers whose threads have been started
  helper,     \* the heartbeat and the monitor thread
  runs,       \* history: how often each loop was entered
  stopped,    \* supervisor_stopped is recorded
  presses     \* how often Ctrl+C was pressed

workerVars == <<worker, restarts, retry, exc, runs>>
vars == <<bounded, stop, workerVars, main, started, helper, stopped, presses>>

Helpers == {"heartbeat", "monitor"}

Done(c) == worker[c] = "done"

WorkersDone == \A c \in Workers : Done(c)

Init ==
  /\ bounded \in BOOLEAN
  /\ stop = FALSE
  /\ worker = [c \in Workers |-> "unborn"]
  /\ restarts = [c \in Workers |-> 0]
  /\ retry = [c \in Workers |-> FALSE]
  /\ exc = [c \in Workers |-> FALSE]
  /\ main = "starting"
  /\ started = {}
  /\ helper = [h \in Helpers |-> "unborn"]
  /\ runs = [c \in Workers |-> 0]
  /\ stopped = FALSE
  /\ presses = 0

-----------------------------------------------------------------------------
(* A worker thread. *)

OnlyWorker == UNCHANGED <<bounded, main, started, helper, stopped, presses>>

Enter(c, afterCrash) ==
  /\ worker' = [worker EXCEPT ![c] = "loop"]
  /\ retry' = [retry EXCEPT ![c] = afterCrash]
  /\ runs' = [runs EXCEPT ![c] = @ + 1]

\* The loop saw stop, or has run max_cycles iterations.  After a retry this is
\* recorded as component_restart_succeeded and the count starts again.
LoopReturns(c) ==
  /\ worker[c] = "loop"
  /\ stop \/ bounded
  /\ worker' = [worker EXCEPT ![c] = "done"]
  /\ restarts' = IF retry[c] THEN [restarts EXCEPT ![c] = 0] ELSE restarts
  /\ UNCHANGED <<stop, retry, exc, runs>>
  /\ OnlyWorker

\* Fault for mutation: one restart too many.
CanRestartOnceMore(c) == restarts[c] <= MaxRestarts

CanRestart(c) == restarts[c] < MaxRestarts

\* Fault for mutation: the restart is not counted.
LoopRaisesUncounted(c) ==
  /\ worker[c] = "loop"
  /\ CanRestart(c)
  /\ worker' = [worker EXCEPT ![c] = "cooldown"]
  /\ UNCHANGED <<stop, restarts, retry, exc, runs>>
  /\ OnlyWorker

\* had_crash is set and component_restart_attempted recorded; then the cooldown.
LoopRaises(c) ==
  /\ worker[c] = "loop"
  /\ CanRestart(c)
  /\ restarts' = [restarts EXCEPT ![c] = @ + 1]
  /\ worker' = [worker EXCEPT ![c] = "cooldown"]
  /\ UNCHANGED <<stop, retry, exc, runs>>
  /\ OnlyWorker

Retry(c) ==
  /\ worker[c] = "cooldown"
  /\ Enter(c, TRUE)
  /\ UNCHANGED <<stop, restarts, exc>>
  /\ OnlyWorker

\* component_restart_exhausted, then the exception is stored.
GiveUp(c) ==
  /\ worker[c] = "loop"
  /\ ~CanRestart(c)
  /\ exc' = [exc EXCEPT ![c] = TRUE]
  /\ worker' = [worker EXCEPT ![c] = "giveup"]
  /\ UNCHANGED <<stop, restarts, retry, runs>>
  /\ OnlyWorker

\* Fault for mutation: the other loop is not told.
KeepGoing(c) ==
  /\ worker[c] = "giveup"
  /\ worker' = [worker EXCEPT ![c] = "report"]
  /\ UNCHANGED <<stop, restarts, retry, exc, runs>>
  /\ OnlyWorker

SetStop(c) ==
  /\ worker[c] = "giveup"
  /\ stop' = TRUE
  /\ worker' = [worker EXCEPT ![c] = "report"]
  /\ UNCHANGED <<restarts, retry, exc, runs>>
  /\ OnlyWorker

\* supervisor_component_error and its notification.
ReportError(c) ==
  /\ worker[c] = "report"
  /\ worker' = [worker EXCEPT ![c] = "done"]
  /\ UNCHANGED <<stop, restarts, retry, exc, runs>>
  /\ OnlyWorker

Worker(c) ==
  \/ LoopReturns(c) \/ LoopRaises(c) \/ Retry(c) \/ GiveUp(c) \/ SetStop(c) \/ ReportError(c)

-----------------------------------------------------------------------------
(* The heartbeat and the monitor thread. *)

OnlyHelper == UNCHANGED <<bounded, stop, workerVars, main, started, stopped, presses>>

\* stop.wait(60) timed out: emit a heartbeat, or check it.
HelperWorks(h) ==
  /\ helper[h] = "wait"
  /\ ~stop
  /\ helper' = [helper EXCEPT ![h] = "work"]
  /\ OnlyHelper

\* The heartbeat thread begins here, the monitor by waiting.
HelperWaits(h) ==
  /\ helper[h] = "work"
  /\ helper' = [helper EXCEPT ![h] = "wait"]
  /\ OnlyHelper

\* stop.wait saw the event; the monitor records supervisor_monitor_stopped.
HelperEnds(h) ==
  /\ helper[h] = "wait"
  /\ stop
  /\ helper' = [helper EXCEPT ![h] = "done"]
  /\ OnlyHelper

Helper(h) == HelperWorks(h) \/ HelperWaits(h) \/ HelperEnds(h)

-----------------------------------------------------------------------------
(* The main thread. *)

\* thread.start() of the two workers, in their order.
StartWorker(c) ==
  /\ main = "starting"
  /\ c \notin started
  /\ c = "trading" => "ingestion" \in started
  /\ started' = started \union {c}
  /\ Enter(c, FALSE)
  /\ UNCHANGED <<bounded, stop, restarts, exc, main, helper, stopped, presses>>

StartHelpers ==
  /\ main = "starting"
  /\ started = Workers
  /\ helper' = [helper EXCEPT !["heartbeat"] = "work", !["monitor"] = "wait"]
  /\ main' = "watch"
  /\ UNCHANGED <<bounded, stop, workerVars, started, stopped, presses>>

OnlyMain == UNCHANGED <<bounded, stop, workerVars, started, helper, presses>>

\* Fault for mutation: two dead workers are not noticed.
LeaveWatchOnStop ==
  /\ main = "watch"
  /\ stop
  /\ main' = "join"
  /\ UNCHANGED stopped
  /\ OnlyMain

\* The wait loop, in the try statement, is left for a set stop or two dead workers.
LeaveWatch ==
  /\ main = "watch"
  /\ stop \/ WorkersDone
  /\ main' = "join"
  /\ UNCHANGED stopped
  /\ OnlyMain

\* Fault for mutation: the workers are joined for a second, like the helpers.
JoinBriefly ==
  /\ main = "join"
  /\ IF \E c \in Workers : exc[c]
       THEN main' = "raised" /\ UNCHANGED stopped
       ELSE main' = "returned" /\ stopped' = TRUE
  /\ OnlyMain

\* _wait_for_workers_to_finish: the helpers are joined for a second each, and
\* left alone when they are still alive then.
Join ==
  /\ main = "join"
  /\ WorkersDone
  /\ IF \E c \in Workers : exc[c]
       THEN main' = "raised" /\ UNCHANGED stopped
       ELSE main' = "returned" /\ stopped' = TRUE
  /\ OnlyMain

\* The same wait in the except clause of KeyboardInterrupt.
JoinInterrupted ==
  /\ main = "interrupted"
  /\ WorkersDone
  /\ main' = "returned"
  /\ stopped' = TRUE
  /\ OnlyMain

\* Fault for mutation: Ctrl+C does not set stop.
InterruptWithoutStop ==
  /\ presses < MaxPresses
  /\ presses' = presses + 1
  /\ main' = IF main = "watch" THEN "interrupted" ELSE "aborted"
  /\ main \in {"starting", "watch", "join", "interrupted"}
  /\ UNCHANGED <<bounded, stop, workerVars, started, helper, stopped>>

\* Ctrl+C is caught in the wait loop only; elsewhere it ends the call.
Interrupt ==
  /\ presses < MaxPresses
  /\ presses' = presses + 1
  /\ \/ /\ main = "watch"
        /\ main' = "interrupted"
        /\ stop' = TRUE
     \/ /\ main \in {"starting", "join", "interrupted"}
        /\ main' = "aborted"
        /\ UNCHANGED stop
  /\ UNCHANGED <<bounded, workerVars, started, helper, stopped>>

Main == (\E c \in Workers : StartWorker(c)) \/ StartHelpers \/ LeaveWatch \/ Join \/ JoinInterrupted

Next ==
  \/ \E c \in Workers : Worker(c)
  \/ \E h \in Helpers : Helper(h)
  \/ Main
  \/ Interrupt

Spec == Init /\ [][Next]_vars

\* Every thread keeps running, and a loop that may return (stop is set, or it has
\* a bounded number of cycles) does so or raises: its sleeps and requests have
\* timeouts.  No loop has to raise and nobody has to press Ctrl+C.
Fairness ==
  /\ \A c \in Workers : WF_vars(LoopReturns(c)) /\ WF_vars(Retry(c))
                        /\ WF_vars(SetStop(c)) /\ WF_vars(ReportError(c))
  /\ \A h \in Helpers : WF_vars(Helper(h))
  /\ WF_vars(Main)

FairSpec == Spec /\ Fairness

-----------------------------------------------------------------------------
(* Properties. *)

Born == {"loop", "cooldown", "giveup", "report", "done"}

TypeOK ==
  /\ bounded \in BOOLEAN
  /\ stop \in BOOLEAN
  /\ worker \in [Workers -> Born \union {"unborn"}]
  /\ restarts \in [Workers -> 0..MaxRestarts]
  /\ retry \in [Workers -> BOOLEAN]
  /\ exc \in [Workers -> BOOLEAN]
  /\ main \in {"starting", "watch", "join", "interrupted", "returned", "raised", "aborted"}
  /\ started \in SUBSET Workers
  /\ helper \in [Helpers -> {"unborn", "work", "wait", "done"}]
  /\ runs \in [Workers -> Nat]
  /\ stopped \in BOOLEAN
  /\ presses \in Nat

\* A loop is entered at most MaxRestarts times after its first run, however
\* crashes, retries, the reset of the count and a stop set by the other worker
\* follow each other.
RestartBudget == \A c \in Workers : runs[c] <= MaxRestarts + 1

\* What the caller of run_supervisor sees.
Abstract ==
  INSTANCE Supervision WITH
    alive <- {c \in Workers : ~Done(c)},
    failed <- {c \in Workers : exc[c]},
    pressed <- presses > 0,
    outcome <- IF main \in {"returned", "raised", "aborted"} THEN main ELSE "running"

\* run_supervisor neither returns nor raises before both loops have ended, raises
\* when one of them gave up and is silent about it only after a Ctrl+C.
ImplementsSupervision == Abstract!SupervisionSpec

Ended == main \in {"returned", "raised", "aborted"}

\* One loop that gives up takes the other one down with it: every loop started
\* ends, through whatever retries are under way, and so does run_supervisor.
FailureEndsTheCall ==
  \A c \in Workers : exc[c] ~> Ended /\ \A d \in started : Done(d)

\* With max_cycles the call ends by itself, whatever the loops raise.
BoundedCallEnds == bounded => <>Ended

\* Ctrl+C in the wait loop ends every thread of the process, the helpers too.
InterruptEndsTheProcess ==
  main = "interrupted" ~> WorkersDone /\ \A h \in Helpers : helper[h] = "done"

\* "supervisor_stopped is never recorded while any thread is still alive"
\* (tests/unit/test_runtime_supervisor.py:413): at the latest, every thread ends
\* after it.
StoppedEndsTheProcess ==
  stopped ~> \A h \in Helpers : helper[h] = "done"

\* "the supervisor handles shutdown cleanly, sets the stop event, waits for both
\* loops, and records supervisor_stopped" (README.md:96): so does a first Ctrl+C
\* once all threads run.
FirstInterruptIsClean ==
  presses = 1 /\ main = "aborted" => helper["heartbeat"] = "unborn"

-----------------------------------------------------------------------------
(* The strengthening that makes the safety properties inductive. *)

\* A thread that has been started is past "unborn", and no other is.
StartedAreBorn == \A c \in Workers : c \in started <=> worker[c] # "unborn"

\* Each run of a loop but the first was paid for by one restart.
BudgetKept ==
  \A c \in Workers :
    /\ worker[c] = "unborn" => runs[c] = 0 /\ restarts[c] = 0
    /\ worker[c] \in {"loop", "giveup", "report"} => runs[c] = restarts[c] + 1
    /\ worker[c] = "cooldown" => runs[c] = restarts[c]
    /\ worker[c] = "done" => runs[c] <= MaxRestarts + 1

\* Only a worker that has left its loop for good has an exception.
FailuresAreFinal ==
  /\ \A c \in Workers : exc[c] => worker[c] \in {"giveup", "report", "done"}
  /\ main = "interrupted" => presses > 0

IInv == TypeOK /\ StartedAreBorn /\ BudgetKept /\ FailuresAreFinal
=============================================================================
