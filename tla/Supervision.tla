----------------------------- MODULE Supervision -----------------------------
(***************************************************************************)
(* What run_supervisor promises its caller: it does not come back while a  *)
(* loop may still trade, it raises when a loop gave up, and it returns     *)
(* normally otherwise.  Only an operator's Ctrl+C changes that: a handled  *)
(* one makes it return whatever the loops did, an unhandled one ends the   *)
(* call at once.                                                           *)
(***************************************************************************)
EXTENDS Naturals

CONSTANT Workers

VARIABLES
  alive,     \* the loops whose thread has not ended, started or not
  failed,    \* the loops that gave up
  pressed,   \* Ctrl+C was pressed
  outcome    \* how the call ended

Outcomes == {"running", "returned", "raised", "aborted"}

SupervisionInit ==
  /\ alive = Workers
  /\ failed = {}
  /\ pressed = FALSE
  /\ outcome = "running"

GiveUp(c) ==
  /\ c \in alive \ failed
  /\ failed' = failed \union {c}
  /\ UNCHANGED <<alive, pressed, outcome>>

End(c) ==
  /\ c \in alive
  /\ alive' = alive \ {c}
  /\ UNCHANGED <<failed, pressed, outcome>>

Press ==
  /\ pressed' = TRUE
  /\ outcome' = outcome
  /\ UNCHANGED <<alive, failed>>

Return ==
  /\ outcome = "running"
  /\ alive = {}
  /\ failed = {} \/ pressed
  /\ outcome' = "returned"
  /\ UNCHANGED <<alive, failed, pressed>>

Raise ==
  /\ outcome = "running"
  /\ alive = {}
  /\ failed # {}
  /\ outcome' = "raised"
  /\ UNCHANGED <<alive, failed, pressed>>

Abandon ==
  /\ outcome = "running"
  /\ pressed' = TRUE
  /\ outcome' = "aborted"
  /\ UNCHANGED <<alive, failed>>

SupervisionNext ==
  \/ \E c \in Workers : GiveUp(c) \/ End(c)
  \/ Press \/ Return \/ Raise \/ Abandon

SupervisionSpec ==
  SupervisionInit /\ [][SupervisionNext]_<<alive, failed, pressed, outcome>>
=============================================================================
