-------------------------- MODULE StreamSupervisor --------------------------
(***************************************************************************)
(* AlpacaStreamSupervisor.run (data/alpaca_resilient.py): a task that      *)
(* connects, serves one stream after the other, and backs off between      *)
(* failures until its retries are used up or stop() is called.             *)
(*                                                                         *)
(* run() is cut at its awaits: subscribing, serving and the wait between   *)
(* two attempts.  How long a wait lasts is left out; that it ends is not.  *)
(* The stream and the credentials are external: an attempt may fail with   *)
(* an error run() catches, with one it does not, or come up; a stream that *)
(* is served may go on for ever, end by itself or fail.                    *)
(***************************************************************************)
EXTENDS Naturals

CONSTANT MaxRetries   \* AlpacaStreamSupervisor.max_retries
SupervisorAssumption == MaxRetries \in Nat

VARIABLES
  at,         \* where run() stands
  health,     \* StreamHealth.state
  attempt,    \* its local counter of failures in a row
  stopped,    \* the event that stop() sets
  cancelled   \* the task has been cancelled

vars == <<at, health, attempt, stopped, cancelled>>

TypeOK ==
  /\ at \in {"loop", "connecting", "serving", "waiting", "ended"}
  /\ health \in {"disconnected", "authenticating", "connected", "backoff",
                 "halted", "stopped"}
  /\ attempt \in 0..(MaxRetries + 1)
  /\ stopped \in BOOLEAN /\ cancelled \in BOOLEAN

Init ==
  /\ at = "loop"
  /\ health = "disconnected"
  /\ attempt = 0
  /\ stopped = FALSE
  /\ cancelled = FALSE

(* The head of the loop; leaving it does not change the state shown. *)
Loop ==
  /\ at = "loop"
  /\ IF stopped \/ attempt > MaxRetries
     THEN at' = "ended" /\ UNCHANGED health
     ELSE at' = "connecting" /\ health' = "authenticating"
  /\ UNCHANGED <<attempt, stopped, cancelled>>

(* Credentials, stream and subscription are there: retries start anew. *)
Connect ==
  /\ at = "connecting"
  /\ at' = "serving"
  /\ health' = "connected"
  /\ attempt' = 0
  /\ UNCHANGED <<stopped, cancelled>>

(* Mutant of Fail: a failure is not counted. *)
FailUncounted ==
  /\ at \in {"connecting", "serving"}
  /\ at' = IF stopped THEN "loop" ELSE "waiting"
  /\ health' = "backoff"
  /\ UNCHANGED <<attempt, stopped, cancelled>>

(* Missing credentials, a connection, timeout or system error. *)
Fail ==
  /\ at \in {"connecting", "serving"}
  /\ IF attempt >= MaxRetries
     THEN at' = "ended" /\ health' = "halted" /\ UNCHANGED attempt
     ELSE /\ at' = IF stopped THEN "loop" ELSE "waiting"
          /\ health' = "backoff"
          /\ attempt' = attempt + 1
  /\ UNCHANGED <<stopped, cancelled>>

(* The delay is over, or stop() ends it. *)
Wake ==
  /\ at = "waiting"
  /\ at' = "loop"
  /\ UNCHANGED <<health, attempt, stopped, cancelled>>

(* The stream ends by itself and is replaced at once. *)
Served ==
  /\ at = "serving"
  /\ at' = "loop"
  /\ UNCHANGED <<health, attempt, stopped, cancelled>>

(* Any other error leaves run() and the state as it was. *)
Break ==
  /\ at \in {"connecting", "serving"}
  /\ at' = "ended"
  /\ UNCHANGED <<health, attempt, stopped, cancelled>>

(* Cancelled at an await: only the try body turns that into "stopped". *)
Cancel ==
  /\ at \in {"connecting", "serving", "waiting"}
  /\ at' = "ended"
  /\ health' = IF at = "waiting" THEN health ELSE "stopped"
  /\ cancelled' = TRUE
  /\ UNCHANGED <<attempt, stopped>>

StopCalled ==
  /\ ~stopped
  /\ stopped' = TRUE
  /\ UNCHANGED <<at, health, attempt, cancelled>>

Attempt == Connect \/ (at = "connecting" /\ (Fail \/ Break))

Next ==
  \/ Loop \/ Connect \/ Fail \/ Wake \/ Served \/ Break
  \/ Cancel \/ StopCalled

(* The event loop resumes run(), every wait times out and every attempt    *)
(* comes to an end; nothing makes a served stream end.                     *)
Fairness == WF_vars(Loop) /\ WF_vars(Wake) /\ WF_vars(Attempt)

Spec == Init /\ [][Next]_vars /\ Fairness

-----------------------------------------------------------------------------
(* run() does not go on for ever without a stream: it ends unless streams  *)
(* keep coming up, and after stop() it ends unless one stream is served    *)
(* for good (the retry budget and the stop event of run()).                *)
RunEnds ==
  /\ <>(at = "ended") \/ []<>(at = "serving")
  /\ [](stopped => <>(at = "ended") \/ <>[](at = "serving"))
=============================================================================
