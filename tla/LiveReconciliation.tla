------------------------ MODULE LiveReconciliation ------------------------
(***************************************************************************)
(* The engine together with ContinuousReconciliation (execution/           *)
(* live_ops.py), the periodic check that compares the engine's packages    *)
(* with a broker snapshot through a reconciler of its own.  The check      *)
(* writes the blocked flag of every package and its own exposure_blocked;  *)
(* it neither reads nor writes the engine's reconciliation_blocked.        *)
(*                                                                         *)
(* The check runs on the event loop between the engine's calls: run()      *)
(* awaits only its timer, so check_once() is one step.  This module covers *)
(* one life of the process; LifecycleEngine covers its restart.            *)
(***************************************************************************)
EXTENDS LifecycleEngine

VARIABLES
  exposureBlocked,  \* ContinuousReconciliation.exposure_blocked
  lastCheck         \* ContinuousReconciliation.last_check

checkVars == <<exposureBlocked, lastCheck>>
liveVars == <<vars, checkVars>>

LiveTypeOK ==
  /\ TypeOK
  /\ exposureBlocked \in BOOLEAN
  /\ lastCheck \in {"none", "ok", "drift", "failed"}

LiveInit ==
  /\ Init
  /\ exposureBlocked = TRUE
  /\ lastCheck = "none"

(* Mutant of CheckOnce: exposure_blocked is set and never cleared. *)
CheckOnceLatched ==
  LET ok == Reconciled IN
  /\ Idle
  /\ pkgBlocked' = [p \in Packages |->
                      IF p \in registered THEN ~ok ELSE pkgBlocked[p]]
  /\ exposureBlocked' = (exposureBlocked \/ ~ok)
  /\ lastCheck' = IF ok THEN "ok" ELSE "drift"
  /\ UNCHANGED <<registered, greeks, legs, submittedIds, reconBlocked,
                 lastResult, submitting, next, brokerVars, faults, repeats>>

(* check_once() with a snapshot. *)
CheckOnce ==
  LET ok == Reconciled IN
  /\ Idle
  /\ pkgBlocked' = [p \in Packages |->
                      IF p \in registered THEN ~ok ELSE pkgBlocked[p]]
  /\ exposureBlocked' = ~ok
  /\ lastCheck' = IF ok THEN "ok" ELSE "drift"
  /\ UNCHANGED <<registered, greeks, legs, submittedIds, reconBlocked,
                 lastResult, submitting, next, brokerVars, faults, repeats>>

(* check_once() when the snapshot provider raises: the packages keep the   *)
(* flags they have.                                                        *)
CheckFailed ==
  /\ Idle
  /\ Fault("check_failed")
  /\ exposureBlocked' = TRUE
  /\ lastCheck' = "failed"
  /\ UNCHANGED <<engineVars, brokerVars, repeats>>

CheckUnchanged == UNCHANGED checkVars

EngineNext ==
  \/ \E p \in Packages, g \in Proposals : Register(p, g)
  \/ \E p \in Packages : SubmitBegin(p)
  \/ SubmitStep
  \/ Reconcile
  \/ RecoverUnknown
  \/ \E l \in Legs : DeliverStep(l) \/ CallerStep(l)
  \/ \E c \in Clients : BrokerStep(c) \/ LoseReport(c)

LiveNext ==
  \/ EngineNext /\ CheckUnchanged
  \/ CheckOnce
  \/ CheckFailed

LiveSpec == LiveInit /\ [][LiveNext]_liveVars

-----------------------------------------------------------------------------
(* FAIRNESS *)

(* run() checks again and again, and a started submit() runs to its end.   *)
(* The engine's calls take turns on one thread: one that is made again and *)
(* again gets its turn although others keep occupying the engine in        *)
(* between, hence strong fairness.                                         *)
CodeGoesOn ==
  /\ SF_liveVars(CheckOnce)
  /\ WF_liveVars(SubmitStep /\ CheckUnchanged)

(* Assumed of those around the engine, since no code of the repository     *)
(* does it: a caller whose submit() raised calls it again, an owner goes   *)
(* on calling reconcile(), somebody delivers what the broker reports, and  *)
(* the broker works off every live order.  Nothing forces a registration   *)
(* or a fault.                                                             *)
CallersGoOn ==
  /\ \A p \in Packages : SF_liveVars(SubmitBegin(p) /\ CheckUnchanged)
  /\ SF_liveVars(Reconcile /\ CheckUnchanged)
  /\ \A l \in Legs : SF_liveVars(DeliverStep(l) /\ CheckUnchanged)
  /\ \A c \in Clients : WF_liveVars(BrokerStep(c) /\ CheckUnchanged)

Fairness == CodeGoesOn /\ CallersGoOn

LiveFairSpec == LiveSpec /\ Fairness

-----------------------------------------------------------------------------
(* PROPERTIES *)

(* A package whose submission was cut short by a refused leg does not keep *)
(* a leg unsent for ever beside legs that trade: every leg of a registered *)
(* package is eventually sent, unless a leg of the package was rejected    *)
(* (submit skips what it has sent).  Callers that try again and reconcile  *)
(* are assumed (CallersGoOn).                                              *)
LegsEventuallySent ==
  \A p \in Packages :
    (p \in registered) ~>
      \/ \A l \in LegsOf(p) : legs[l].state # "planned"
      \/ PackageState(p) = "rejected"

(* The blocks that in-flight reports and failed checks cause are passing:  *)
(* when no report is lost, the engine, the periodic check and every        *)
(* registered package end up unblocked for good (reconcile, check_once).   *)
(* That somebody delivers reports and reconciles is assumed (CallersGoOn). *)
(* It says that the blocks go away, not that they are strong enough while  *)
(* they last: submit() does not read exposure_blocked.                     *)
BlocksAreTransient ==
  <>[](registered # {} =>
         /\ ~reconBlocked
         /\ ~exposureBlocked
         /\ \A p \in registered : ~pkgBlocked[p])
=============================================================================
