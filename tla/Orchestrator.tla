---------------------------- MODULE Orchestrator ----------------------------
(***************************************************************************)
(* OptivioOrchestrator (orchestration/runtime.py): the supervisor's state, *)
(* its gates and the dependency-ordered invocation of its components.      *)
(*                                                                         *)
(* Callers are threads (an operator, a stream adapter).  The orchestrator  *)
(* has a lock, but takes it for single assignments only: start(),          *)
(* preflight(), reconnect() and invoke() are jobs of several steps between *)
(* which every other call may run, and the methods that hold the lock      *)
(* throughout are one step.                                                *)
(***************************************************************************)
EXTENDS Naturals, Sequences, FiniteSets

CONSTANTS
  Threads,      \* threads that run jobs
  Owners,       \* the threads that call start() and preflight()
  Kinds,        \* the jobs this instance runs: start, preflight, reconnect, invoke
  StartModes,   \* the runtime modes that are asked for
  Invocable,    \* the components that are invoked on their own
  TkAvailable,  \* tkinter can be imported
  MaxCalls      \* bound: jobs begun and calls of recover()

JobKinds == {"start", "preflight", "reconnect", "invoke"}

-----------------------------------------------------------------------------
(* TABLES *)

Dependencies ==
  [point_in_time         |-> {},
   contract_master       |-> {"point_in_time"},
   event_bus             |-> {"contract_master"},
   persistence           |-> {"event_bus"},
   broker_reconciliation |-> {"persistence", "event_bus"},
   hybrid_model          |-> {"point_in_time", "persistence"},
   regime_models         |-> {"point_in_time", "persistence"},
   strategies            |-> {"hybrid_model", "regime_models"},
   backtest              |-> {"point_in_time", "strategies"},
   walk_forward          |-> {"backtest"},
   greeks_risk           |-> {"contract_master", "broker_reconciliation"},
   portfolio             |-> {"greeks_risk", "strategies"},
   smart_router          |-> {"portfolio", "event_bus"},
   paper_execution       |-> {"smart_router", "broker_reconciliation",
                              "greeks_risk"}]

Components == DOMAIN Dependencies

(* Mutant of Sequence: the models come before the store they read. *)
ModelsFirst ==
  <<"point_in_time", "contract_master", "event_bus", "hybrid_model",
    "persistence", "broker_reconciliation", "regime_models", "strategies",
    "greeks_risk", "portfolio", "smart_router">>

(* What run_sequence() invokes, in order. *)
Sequence ==
  <<"point_in_time", "contract_master", "event_bus", "persistence",
    "broker_reconciliation", "hybrid_model", "regime_models", "strategies",
    "greeks_risk", "portfolio", "smart_router">>

(* What reconnect() invokes, in order. *)
DataPath == <<"point_in_time", "contract_master", "event_bus", "persistence">>

(* The components recover() takes out of service. *)
ResetByRecovery == {"event_bus", "persistence", "broker_reconciliation"}

SyncGates == {"fresh_stream", "broker_sync"}
PreflightGates == {"paper_endpoint", "configuration", "kill_switch_clear",
                   "native_dependencies", "typed_paper_intent"}
Gates == PreflightGates \cup SyncGates

(* The gates whose failure does not halt a start. *)
Advisory == {"native_dependencies"}

States == {"stopped", "preflight", "syncing", "running", "paused", "recovery",
           "halted"}
Modes == {"signal_only", "shadow", "constrained_paper"}

ASSUME ThreadsAssumption ==
  /\ Owners \subseteq Threads
  /\ Kinds \subseteq JobKinds
  /\ StartModes \subseteq Modes
  /\ Invocable \subseteq Components
  /\ TkAvailable \in BOOLEAN
  /\ MaxCalls \in Nat

-----------------------------------------------------------------------------
VARIABLES
  state,       \* RuntimeSnapshot.state
  mode,        \* RuntimeSnapshot.mode
  gates,       \* RuntimeSnapshot.gates: passed, failed or absent
  ready,       \* RuntimeSnapshot.components: those that are "ready"
  pc,          \* where a thread's job stands
  job,         \* a thread's job: its kind, arguments and local variables
  disturbed,   \* history: the jobs during which recover() ran
  calls        \* jobs begun and calls of recover() so far

vars == <<state, mode, gates, ready, pc, job, disturbed, calls>>

(* todo: the components the job has still to invoke; verdict: the gates    *)
(* preflight() computed.                                                   *)
Verdict == [PreflightGates -> BOOLEAN]
NoVerdict == [g \in PreflightGates |-> FALSE]
Job == [kind : JobKinds \cup {"none"}, valid : BOOLEAN, mode : Modes,
        todo : Seq(Components), verdict : Verdict]
NoJob == [kind |-> "none", valid |-> FALSE, mode |-> "signal_only",
          todo |-> << >>, verdict |-> NoVerdict]

TypeOK ==
  /\ state \in States
  /\ mode \in Modes
  /\ gates \in [Gates -> {"passed", "failed", "absent"}]
  /\ ready \subseteq Components
  /\ pc \in [Threads -> {"idle", "preflight", "publish", "decide", "check",
                         "refused", "ready", "finish"}]
  /\ job \in [Threads -> Job]
  /\ disturbed \subseteq Threads
  /\ calls \in 0 .. MaxCalls

Init ==
  /\ state = "stopped"
  /\ mode = "signal_only"
  /\ gates = [g \in Gates |-> "absent"]
  /\ ready = {}
  /\ pc = [t \in Threads |-> "idle"]
  /\ job = [t \in Threads |-> NoJob]
  /\ disturbed = {}
  /\ calls = 0

-----------------------------------------------------------------------------
(* JOBS *)

At(t, place) == pc[t] = place
Go(t, place) == pc' = [pc EXCEPT ![t] = place]

Call == calls < MaxCalls /\ calls' = calls + 1

Begin(t, kind, place, j) ==
  /\ Call
  /\ At(t, "idle")
  /\ kind \in Kinds
  /\ Go(t, place)
  /\ job' = [job EXCEPT ![t] = [j EXCEPT !.kind = kind]]

End(t) ==
  /\ Go(t, "idle")
  /\ job' = [job EXCEPT ![t] = NoJob]
  /\ disturbed' = disturbed \ {t}

(* start() up to its preflight, or preflight() called by itself. *)
PreflightBegin(t, kind, valid, m) ==
  /\ t \in Owners
  /\ Begin(t, kind, "preflight",
           [NoJob EXCEPT !.valid = valid, !.mode = m, !.todo = Sequence])
  /\ state' = IF kind = "start" THEN "preflight" ELSE state
  /\ UNCHANGED <<mode, gates, ready, disturbed>>

(* preflight() reads OPTIVIO_KILL_SWITCH from the environment. *)
Preflight(t, killSwitch) ==
  LET j == job[t] IN
  /\ At(t, "preflight")
  /\ job' = [job EXCEPT ![t].verdict =
       [paper_endpoint      |-> j.valid,
        configuration       |-> j.valid,
        kill_switch_clear   |-> ~killSwitch,
        native_dependencies |-> TkAvailable,
        typed_paper_intent  |-> j.mode # "constrained_paper" \/ j.valid]]
  /\ Go(t, "publish")
  /\ UNCHANGED <<state, mode, gates, ready, disturbed, calls>>

(* preflight() replaces the gates, those of mark_synchronized() included.  *)
Publish(t) ==
  /\ At(t, "publish")
  /\ gates' = [g \in Gates |->
                 IF g \in SyncGates THEN "absent"
                 ELSE IF job[t].verdict[g] THEN "passed" ELSE "failed"]
  /\ mode' = job[t].mode
  /\ IF job[t].kind = "start" THEN Go(t, "decide") /\ UNCHANGED <<job, disturbed>>
                              ELSE End(t)
  /\ UNCHANGED <<state, ready, calls>>

Blocking(verdict) == {g \in PreflightGates \ Advisory : ~verdict[g]}

(* Mutant of Decide: a start with a failed gate returns as it is. *)
DecideWithoutHalt(t) ==
  /\ At(t, "decide")
  /\ IF Blocking(job[t].verdict) # {}
       THEN UNCHANGED state /\ End(t)
       ELSE state' = "syncing" /\ Go(t, "check") /\ UNCHANGED <<job, disturbed>>
  /\ UNCHANGED <<mode, gates, ready, calls>>

Decide(t) ==
  /\ At(t, "decide")
  /\ IF Blocking(job[t].verdict) # {}
       THEN state' = "halted" /\ End(t)
       ELSE state' = "syncing" /\ Go(t, "check") /\ UNCHANGED <<job, disturbed>>
  /\ UNCHANGED <<mode, gates, ready, calls>>

InvokeBegin(t, c) ==
  /\ Begin(t, "invoke", "check", [NoJob EXCEPT !.todo = <<c>>])
  /\ UNCHANGED <<state, mode, gates, ready, disturbed>>

(* invoke(): the dependencies are looked up without the lock, and a        *)
(* missing one raises.                                                     *)
CheckDependencies(t) ==
  LET met == Dependencies[Head(job[t].todo)] \subseteq ready IN
  /\ At(t, "check")
  /\ \/ met /\ Go(t, "ready") /\ UNCHANGED <<job, disturbed>>
     \/ ~met /\ job[t].kind = "invoke" /\ End(t)
     \/ ~met /\ job[t].kind # "invoke" /\ Go(t, "refused") /\ UNCHANGED <<job, disturbed>>
  /\ UNCHANGED <<state, mode, gates, ready, calls>>

(* start() and reconnect() catch it and, holding the lock again, halt.     *)
HaltRefused(t) ==
  /\ At(t, "refused")
  /\ state' = "halted"
  /\ End(t)
  /\ UNCHANGED <<mode, gates, ready, calls>>

(* invoke() after the component's action. *)
MarkReady(t) ==
  LET rest == Tail(job[t].todo) IN
  /\ At(t, "ready")
  /\ ready' = ready \cup {Head(job[t].todo)}
  /\ \/ /\ rest # << >>
        /\ job' = [job EXCEPT ![t].todo = rest]
        /\ Go(t, "check")
        /\ UNCHANGED disturbed
     \/ /\ rest = << >>
        /\ job[t].kind = "start"
        /\ job' = [job EXCEPT ![t].todo = rest]
        /\ Go(t, "finish")
        /\ UNCHANGED disturbed
     \/ rest = << >> /\ job[t].kind # "start" /\ End(t)
  /\ UNCHANGED <<state, mode, gates, calls>>

(* Mutant of StartFinish: paper trading does not wait. *)
FinishRunning(t) ==
  /\ At(t, "finish")
  /\ state' = "running"
  /\ End(t)
  /\ UNCHANGED <<mode, gates, ready, calls>>

(* start() after the sequence: paper trading waits for synchronization.    *)
StartFinish(t) ==
  /\ At(t, "finish")
  /\ state' = IF job[t].mode = "constrained_paper" THEN state ELSE "running"
  /\ End(t)
  /\ UNCHANGED <<mode, gates, ready, calls>>

-----------------------------------------------------------------------------
(* CALLS THAT HOLD THE LOCK *)

(* Mutant of MarkSynchronized: a gate's detail taken for its verdict. *)
MarkByDetail(fresh, synced) ==
  /\ gates' = [gates EXCEPT
       !["fresh_stream"] = IF fresh THEN "passed" ELSE "stale",
       !["broker_sync"]  = IF synced THEN "passed" ELSE "failed"]
  /\ state' = IF fresh /\ synced THEN "running" ELSE "halted"
  /\ UNCHANGED <<mode, ready, pc, job, disturbed, calls>>

MarkSynchronized(fresh, synced) ==
  /\ gates' = [gates EXCEPT
       !["fresh_stream"] = IF fresh THEN "passed" ELSE "failed",
       !["broker_sync"]  = IF synced THEN "passed" ELSE "failed"]
  /\ state' = IF fresh /\ synced THEN "running" ELSE "halted"
  /\ UNCHANGED <<mode, ready, pc, job, disturbed, calls>>

Pause ==
  /\ state' = "paused"
  /\ UNCHANGED <<mode, gates, ready, pc, job, disturbed, calls>>

Stop ==
  /\ state' = "stopped"
  /\ UNCHANGED <<mode, gates, ready, pc, job, disturbed, calls>>

(* Mutant of Reset: the synchronization gates are kept. *)
ResetKeepingGates ==
  /\ state' = "recovery"
  /\ ready' = ready \ ResetByRecovery
  /\ disturbed' = {t \in Threads : pc[t] # "idle"}
  /\ UNCHANGED <<mode, gates>>

(* recover(); the jobs under way go on. *)
Reset ==
  /\ state' = "recovery"
  /\ ready' = ready \ ResetByRecovery
  /\ gates' = [g \in Gates |-> IF g \in SyncGates THEN "absent" ELSE gates[g]]
  /\ disturbed' = {t \in Threads : pc[t] # "idle"}
  /\ UNCHANGED mode

Recover == Call /\ Reset /\ UNCHANGED <<pc, job>>

(* reconnect() is recover() followed by the data path. *)
ReconnectBegin(t) ==
  /\ Begin(t, "reconnect", "check", [NoJob EXCEPT !.todo = DataPath])
  /\ Reset

-----------------------------------------------------------------------------
JobStep(t) ==
  \/ \E killSwitch \in BOOLEAN : Preflight(t, killSwitch)
  \/ Publish(t) \/ Decide(t)
  \/ CheckDependencies(t) \/ HaltRefused(t) \/ MarkReady(t) \/ StartFinish(t)

Next ==
  \/ \E t \in Threads : JobStep(t) \/ ReconnectBegin(t)
  \/ \E t \in Threads, kind \in {"start", "preflight"},
        valid \in BOOLEAN, m \in StartModes : PreflightBegin(t, kind, valid, m)
  \/ \E t \in Threads, c \in Invocable : InvokeBegin(t, c)
  \/ \E fresh, synced \in BOOLEAN : MarkSynchronized(fresh, synced)
  \/ Pause
  \/ Stop
  \/ Recover

Spec == Init /\ [][Next]_vars

(* A job's thread keeps running.  Nobody has to call anything. *)
FairSpec == Spec /\ \A t \in Threads : WF_vars(JobStep(t))

-----------------------------------------------------------------------------
(* PROPERTIES *)

(* "Non-bypassable paper gates": paper trading runs only while stream and  *)
(* broker have been reported synchronized since the last start, recovery   *)
(* or reconnect, whatever calls overlap.  A restart of a running runtime   *)
(* clears the gates just before it takes the state away (decide).          *)
PaperRunsSynced ==
  (/\ state = "running"
   /\ mode = "constrained_paper"
   /\ \A t \in Threads : ~At(t, "decide")) =>
     \A g \in SyncGates : gates[g] = "passed"

(* A reconnect is not a reconciliation: while the runtime recovers,        *)
(* neither synchronization counts as verified.                             *)
RecoveryUnsynced ==
  state = "recovery" => \A g \in SyncGates : gates[g] = "absent"

(* The order of run_sequence() and of reconnect() fits the dependency      *)
(* table: a job is blocked at a component only when recover() took         *)
(* components away while it ran.                                           *)
OnlyRecoveryBlocks ==
  [][\A t \in Threads :
       (At(t, "check") /\ At(t, "refused")') => t \in disturbed]_vars

(* A start never hangs in preflight: it goes on or it halts. *)
PreflightPasses == (state = "preflight") ~> (state # "preflight")

(* OPTIVIO_KILL_SWITCH is set; trading is halted. *)
KillSwitchHalts ==
  (state = "running" /\ \A t \in Threads : At(t, "idle")) =>
    gates["kill_switch_clear"] # "failed"
=============================================================================
