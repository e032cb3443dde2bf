------------------------- MODULE OrchestratorProofs -------------------------
(***************************************************************************)
(* Theorems about Orchestrator, for any threads, owners, job kinds, modes  *)
(* and bounds.                                                             *)
(***************************************************************************)
EXTENDS Orchestrator, TLAPS

-----------------------------------------------------------------------------
(* PLANS *)

(* Every component of the plan finds its dependencies in service or before *)
(* it in the plan.                                                         *)
Fits(plan, inService) ==
  \A i \in DOMAIN plan :
    Dependencies[plan[i]] \subseteq inService \cup {plan[j] : j \in 1 .. i - 1}

(* The order of run_sequence() fits the dependency table. *)
LEMMA SequenceFits == Sequence \in Seq(Components) /\ Fits(Sequence, {})
<1>1. Sequence \in Seq(Components)
  BY DEF Sequence, Components, Dependencies
<1>2. Fits(Sequence, {})
  BY DEF Fits, Sequence, Dependencies
<1> QED BY <1>1, <1>2

(* The order of reconnect() fits it, too. *)
LEMMA DataPathFits == DataPath \in Seq(Components) /\ Fits(DataPath, {})
<1>1. DataPath \in Seq(Components)
  BY DEF DataPath, Components, Dependencies
<1>2. Fits(DataPath, {})
  BY DEF Fits, DataPath, Dependencies
<1> QED BY <1>1, <1>2

(* More components in service do not hurt a plan. *)
LEMMA FitsGrows ==
  ASSUME NEW plan, NEW S, NEW T, S \subseteq T, Fits(plan, S)
  PROVE  Fits(plan, T)
BY DEF Fits

(* The next component of a plan can go, and what follows fits once it has. *)
LEMMA FitsAdvances ==
  ASSUME NEW plan \in Seq(Components), NEW S, plan # << >>, Fits(plan, S)
  PROVE  /\ Dependencies[Head(plan)] \subseteq S
         /\ Fits(Tail(plan), S \cup {Head(plan)})
<1>1. Dependencies[Head(plan)] \subseteq S
  BY DEF Fits
<1>2. ASSUME NEW i \in DOMAIN Tail(plan)
      PROVE  Dependencies[Tail(plan)[i]] \subseteq
               (S \cup {Head(plan)}) \cup {Tail(plan)[j] : j \in 1 .. i - 1}
  <2>1. i \in 1 .. Len(plan) - 1 /\ Tail(plan)[i] = plan[i + 1]
    BY <1>2
  <2>2. Dependencies[plan[i + 1]] \subseteq S \cup {plan[j] : j \in 1 .. i}
    BY <2>1 DEF Fits
  <2>3. ASSUME NEW j \in 1 .. i
        PROVE  plan[j] \in {Head(plan)} \cup {Tail(plan)[k] : k \in 1 .. i - 1}
    <3>1. CASE j = 1
      BY <3>1
    <3>2. CASE j # 1
      <4>1. j - 1 \in 1 .. i - 1 /\ Tail(plan)[j - 1] = plan[j]
        BY <2>1, <3>2
      <4> QED BY <4>1
    <3> QED BY <3>1, <3>2
  <2> QED BY <2>1, <2>2, <2>3, SMTT(30)
<1> QED BY <1>1, <1>2 DEF Fits

-----------------------------------------------------------------------------
(* THE INDUCTIVE INVARIANT *)

Planning == {"preflight", "publish", "decide"}

(* What a job is: of a kind this instance runs, at a place that kind can   *)
(* reach, called by an owner if it publishes gates, with components left   *)
(* to invoke until it is about to finish.                                  *)
JobInv ==
  \A t \in Threads :
    /\ At(t, "idle") \/ job[t].kind \in Kinds
    /\ pc[t] \in {"preflight", "publish"} => job[t].kind \in {"start", "preflight"}
    /\ pc[t] \in {"decide", "finish"} => job[t].kind = "start"
    /\ job[t].kind \in {"start", "preflight"} => t \in Owners
    /\ pc[t] \notin {"idle", "finish"} => job[t].todo # << >>

(* What a start() or reconnect() has still to invoke fits what is in       *)
(* service, unless recover() has run meanwhile.                            *)
PlanInv ==
  \A t \in Threads :
    \/ At(t, "idle") \/ t \in disturbed \/ job[t].kind = "invoke"
    \/ Fits(job[t].todo, ready)

IInv ==
  /\ TypeOK
  /\ JobInv
  /\ PlanInv
  /\ RecoveryUnsynced

LEMMA InitIInv == Init => IInv
<1> SUFFICES ASSUME Init PROVE IInv
  OBVIOUS
<1>1. NoJob \in Job
  BY DEF NoJob, Job, Modes, Verdict, NoVerdict
<1>2. TypeOK
  BY <1>1, ThreadsAssumption DEF Init, TypeOK, States, Modes
<1>3. JobInv /\ PlanInv
  BY DEF Init, JobInv, PlanInv, At, NoJob
<1>4. RecoveryUnsynced
  BY DEF Init, RecoveryUnsynced
<1> QED BY <1>2, <1>3, <1>4 DEF IInv

Places == {"idle", "preflight", "publish", "decide", "check", "refused", "ready",
           "finish"}

(* A job that begins is well-formed and at its first place. *)
LEMMA BeginType ==
  ASSUME IInv, NEW t \in Threads, NEW kind \in JobKinds, NEW j \in Job,
         NEW place, Begin(t, kind, place, j)
  PROVE  /\ job' \in [Threads -> Job]
         /\ calls' \in 0 .. MaxCalls
         /\ kind \in Kinds
         /\ job'[t].kind = kind /\ job'[t].todo = j.todo
         /\ pc' = [pc EXCEPT ![t] = place] /\ pc'[t] = place
         /\ \A u \in Threads \ {t} : pc'[u] = pc[u] /\ job'[u] = job[u]
<1>1. /\ [j EXCEPT !.kind = kind] \in Job
      /\ [j EXCEPT !.kind = kind].kind = kind
      /\ [j EXCEPT !.kind = kind].todo = j.todo
  BY DEF Job
<1>2. calls' \in 0 .. MaxCalls
  BY ThreadsAssumption DEF IInv, TypeOK, Begin, Call
<1> QED BY <1>1, <1>2 DEF IInv, TypeOK, Begin, Go

(* ... and keeps what is said of jobs. *)
LEMMA BeginKeeps ==
  ASSUME IInv, NEW t \in Threads, NEW kind \in JobKinds, NEW j \in Job,
         NEW place \in {"preflight", "check"}, Begin(t, kind, place, j),
         j.todo # << >>,
         kind \in {"start", "preflight"} => t \in Owners,
         place = "preflight" => kind \in {"start", "preflight"}
  PROVE  /\ job' \in [Threads -> Job]
         /\ pc' \in [Threads -> Places]
         /\ calls' \in 0 .. MaxCalls
         /\ JobInv'
<1>1. /\ job' \in [Threads -> Job]
      /\ calls' \in 0 .. MaxCalls
      /\ kind \in Kinds
      /\ job'[t].kind = kind /\ job'[t].todo = j.todo
      /\ pc' = [pc EXCEPT ![t] = place] /\ pc'[t] = place
      /\ \A u \in Threads \ {t} : pc'[u] = pc[u] /\ job'[u] = job[u]
  BY BeginType
<1>2. pc' \in [Threads -> Places]
  BY <1>1 DEF IInv, TypeOK, Places
<1>3. JobInv'
  BY <1>1 DEF IInv, JobInv, At
<1> QED BY <1>1, <1>2, <1>3

(* Calls that hold the lock throughout and leave the jobs alone. *)
LEMMA LockedKeeps ==
  ASSUME IInv,
         \/ \E fresh, synced \in BOOLEAN : MarkSynchronized(fresh, synced)
         \/ Pause
         \/ Stop
  PROVE  IInv'
<1>1. JobInv' /\ PlanInv'
  BY DEF IInv, JobInv, PlanInv, At, MarkSynchronized, Pause, Stop
<1>2. ASSUME NEW fresh \in BOOLEAN, NEW synced \in BOOLEAN,
             MarkSynchronized(fresh, synced)
      PROVE  TypeOK' /\ RecoveryUnsynced'
  BY <1>2 DEF IInv, TypeOK, States, RecoveryUnsynced, MarkSynchronized
<1>3. CASE Pause \/ Stop
  BY <1>1, <1>3 DEF IInv, TypeOK, States, RecoveryUnsynced, Pause, Stop
<1> QED BY <1>1, <1>2, <1>3 DEF IInv

(* recover() disturbs every job under way, and nobody is synchronized. *)
LEMMA ResetType ==
  ASSUME IInv, Reset
  PROVE  /\ state' \in States /\ mode' \in Modes
         /\ gates' \in [Gates -> {"passed", "failed", "absent"}]
         /\ ready' \subseteq Components
         /\ disturbed' \subseteq Threads
         /\ \A t \in Threads : t \in disturbed' \/ At(t, "idle")
         /\ RecoveryUnsynced'
BY DEF IInv, TypeOK, Reset, States, At, RecoveryUnsynced, SyncGates, Gates

LEMMA RecoverKeeps == IInv /\ Recover => IInv'
<1> SUFFICES ASSUME IInv, Recover PROVE IInv'
  OBVIOUS
<1>1. TypeOK' /\ RecoveryUnsynced'
  BY ResetType, ThreadsAssumption DEF IInv, TypeOK, Recover, Call
<1>2. JobInv' /\ PlanInv'
  BY ResetType DEF IInv, JobInv, PlanInv, At, Recover
<1> QED BY <1>1, <1>2 DEF IInv

LEMMA ReconnectKeeps ==
  ASSUME IInv, NEW t \in Threads, ReconnectBegin(t)
  PROVE  IInv'
<1> DEFINE j == [NoJob EXCEPT !.todo = DataPath]
<1>1. j \in Job /\ j.todo = DataPath /\ DataPath # << >>
  BY DataPathFits DEF NoJob, Job, Modes, Verdict, NoVerdict, DataPath
<1>2. Begin(t, "reconnect", "check", j) /\ Reset
  BY DEF ReconnectBegin
<1> HIDE DEF j
<1>3. TypeOK' /\ JobInv'
  BY <1>1, <1>2, BeginKeeps, ResetType DEF JobKinds, TypeOK, Places
<1>4. /\ job'[t].todo = DataPath
      /\ \A u \in Threads \ {t} : pc'[u] = pc[u] /\ job'[u] = job[u]
  BY <1>1, <1>2, BeginType DEF JobKinds
<1>5. Fits(DataPath, ready')
  BY DataPathFits, FitsGrows
<1>6. PlanInv'
  BY <1>2, <1>4, <1>5, ResetType DEF PlanInv, At
<1> QED BY <1>2, <1>3, <1>6, ResetType DEF IInv

LEMMA PreflightBeginKeeps ==
  ASSUME IInv, NEW t \in Threads, NEW kind \in {"start", "preflight"},
         NEW valid \in BOOLEAN, NEW m \in StartModes,
         PreflightBegin(t, kind, valid, m)
  PROVE  IInv'
<1> DEFINE j == [NoJob EXCEPT !.valid = valid, !.mode = m, !.todo = Sequence]
<1>1. j \in Job /\ j.todo = Sequence /\ Sequence # << >>
  BY SequenceFits, ThreadsAssumption
     DEF NoJob, Job, Modes, Verdict, NoVerdict, Sequence
<1>2. Begin(t, kind, "preflight", j) /\ t \in Owners
  BY DEF PreflightBegin
<1> HIDE DEF j
<1>3. TypeOK' /\ JobInv'
  BY <1>1, <1>2, BeginKeeps DEF JobKinds, Places, PreflightBegin, IInv, TypeOK, States
<1>4. /\ job'[t].todo = Sequence
      /\ \A u \in Threads \ {t} : pc'[u] = pc[u] /\ job'[u] = job[u]
  BY <1>1, <1>2, BeginType DEF JobKinds
<1>5. Fits(Sequence, ready')
  BY SequenceFits, FitsGrows
<1>6. PlanInv'
  BY <1>4, <1>5 DEF IInv, PreflightBegin, PlanInv, At
<1>7. RecoveryUnsynced'
  BY DEF IInv, PreflightBegin, RecoveryUnsynced
<1> QED BY <1>3, <1>6, <1>7 DEF IInv

LEMMA InvokeBeginKeeps ==
  ASSUME IInv, NEW t \in Threads, NEW c \in Invocable, InvokeBegin(t, c)
  PROVE  IInv'
<1> DEFINE j == [NoJob EXCEPT !.todo = <<c>>]
<1>1. j \in Job /\ j.todo = <<c>> /\ <<c>> # << >>
  <2>1. <<c>> \in Seq(Components)
    BY ThreadsAssumption
  <2> QED BY <2>1 DEF NoJob, Job, Modes, Verdict, NoVerdict
<1>2. Begin(t, "invoke", "check", j)
  BY DEF InvokeBegin
<1> HIDE DEF j
<1>3. TypeOK' /\ JobInv'
  BY <1>1, <1>2, BeginKeeps DEF JobKinds, Places, InvokeBegin, IInv, TypeOK
<1>4. /\ job'[t].kind = "invoke"
      /\ \A u \in Threads \ {t} : pc'[u] = pc[u] /\ job'[u] = job[u]
  BY <1>1, <1>2, BeginType DEF JobKinds
<1>5. PlanInv' /\ RecoveryUnsynced'
  BY <1>4 DEF IInv, InvokeBegin, PlanInv, At, RecoveryUnsynced
<1> QED BY <1>3, <1>5 DEF IInv

(* A job that ends leaves nothing to be said of it. *)
LEMMA EndKeeps ==
  ASSUME IInv, NEW t \in Threads, End(t), ready \subseteq ready'
  PROVE  /\ job' \in [Threads -> Job]
         /\ pc' \in [Threads -> Places]
         /\ disturbed' \subseteq Threads
         /\ JobInv'
         /\ PlanInv'
<1>1. /\ NoJob \in Job
      /\ NoJob.kind = "none"
  BY DEF NoJob, Job, Modes, Verdict, NoVerdict
<1>2. /\ job' = [job EXCEPT ![t] = NoJob] /\ pc' = [pc EXCEPT ![t] = "idle"]
      /\ disturbed' = disturbed \ {t}
  BY DEF End, Go
<1>3. job' \in [Threads -> Job] /\ pc' \in [Threads -> Places] /\ disturbed' \subseteq Threads
  BY <1>1, <1>2 DEF IInv, TypeOK, Places
<1>4. /\ job'[t] = NoJob /\ pc'[t] = "idle"
      /\ \A u \in Threads \ {t} : pc'[u] = pc[u] /\ job'[u] = job[u]
  BY <1>1, <1>2 DEF IInv, TypeOK
<1>5. JobInv'
  BY <1>1, <1>4 DEF IInv, JobInv, At
<1>6. PlanInv'
  <2> SUFFICES ASSUME NEW u \in Threads \ {t}
               PROVE  \/ At(u, "idle")' \/ u \in disturbed' \/ job'[u].kind = "invoke"
                      \/ Fits(job'[u].todo, ready')
    BY <1>4 DEF PlanInv, At
  <2>1. ASSUME Fits(job[u].todo, ready) PROVE Fits(job[u].todo, ready')
    BY <2>1, FitsGrows
  <2> QED BY <1>2, <1>4, <2>1 DEF IInv, PlanInv, At
<1> QED BY <1>3, <1>5, <1>6

LEMMA PreflightKeeps ==
  ASSUME IInv, NEW t \in Threads, NEW killSwitch \in BOOLEAN,
         Preflight(t, killSwitch)
  PROVE  IInv'
<1> DEFINE v == [paper_endpoint      |-> job[t].valid,
                 configuration       |-> job[t].valid,
                 kill_switch_clear   |-> ~killSwitch,
                 native_dependencies |-> TkAvailable,
                 typed_paper_intent  |-> job[t].mode # "constrained_paper"
                                           \/ job[t].valid]
           j == [job[t] EXCEPT !.verdict = v]
<1>1. v \in Verdict /\ job[t] \in Job
  <2>1. job[t] \in Job /\ job[t].valid \in BOOLEAN
    BY DEF IInv, TypeOK, Job
  <2>2. \A g \in PreflightGates : v[g] \in BOOLEAN
    <3>1. (job[t].mode # "constrained_paper" \/ job[t].valid) \in BOOLEAN
      OBVIOUS
    <3>2. /\ v.paper_endpoint \in BOOLEAN /\ v.configuration \in BOOLEAN
          /\ v.kill_switch_clear \in BOOLEAN
      BY <2>1
    <3>3. v.native_dependencies \in BOOLEAN /\ v.typed_paper_intent \in BOOLEAN
      BY <3>1, ThreadsAssumption
    <3> HIDE DEF v
    <3> QED BY <3>2, <3>3 DEF PreflightGates
  <2>3. v = [g \in PreflightGates |-> v[g]]
    BY DEF PreflightGates
  <2> HIDE DEF v
  <2> QED BY <2>1, <2>2, <2>3 DEF Verdict
<1>2. job' = [job EXCEPT ![t] = j] /\ pc' = [pc EXCEPT ![t] = "publish"]
  BY DEF Preflight, Go, IInv, TypeOK
<1> HIDE DEF v
<1>3. j \in Job /\ j.kind = job[t].kind /\ j.todo = job[t].todo
  BY <1>1 DEF Job
<1> HIDE DEF j
<1>4. TypeOK'
  BY <1>2, <1>3 DEF IInv, TypeOK, Preflight
<1>5. /\ job'[t] = j /\ pc'[t] = "publish" /\ pc[t] = "preflight"
      /\ \A u \in Threads \ {t} : pc'[u] = pc[u] /\ job'[u] = job[u]
  BY <1>2, <1>3 DEF IInv, TypeOK, Preflight, At
<1>6. JobInv'
  BY <1>3, <1>5 DEF IInv, JobInv, At
<1>7. PlanInv' /\ RecoveryUnsynced'
  BY <1>3, <1>5 DEF IInv, PlanInv, RecoveryUnsynced, At, Preflight
<1> QED BY <1>4, <1>6, <1>7 DEF IInv

LEMMA PublishKeeps ==
  ASSUME IInv, NEW t \in Threads, Publish(t)
  PROVE  IInv'
<1>1. /\ state' \in States /\ mode' \in Modes /\ ready' \subseteq Components
      /\ gates' \in [Gates -> {"passed", "failed", "absent"}]
      /\ calls' \in 0 .. MaxCalls
      /\ RecoveryUnsynced'
  BY DEF IInv, TypeOK, Publish, RecoveryUnsynced, Job, Gates, SyncGates
<1>2. CASE job[t].kind = "start"
  <2>1. /\ pc' = [pc EXCEPT ![t] = "decide"] /\ pc[t] = "publish"
        /\ UNCHANGED <<job, disturbed, ready>>
    BY <1>2 DEF Publish, Go, At
  <2>2. JobInv' /\ PlanInv'
    BY <1>2, <2>1 DEF IInv, TypeOK, JobInv, PlanInv, At
  <2>3. TypeOK'
    BY <1>1, <2>1 DEF IInv, TypeOK
  <2> QED BY <1>1, <2>2, <2>3 DEF IInv
<1>3. CASE job[t].kind # "start"
  <2>1. End(t) /\ ready' = ready
    BY <1>3 DEF Publish
  <2> QED BY <1>1, <2>1, EndKeeps DEF IInv, TypeOK, Places
<1> QED BY <1>2, <1>3

LEMMA DecideKeeps ==
  ASSUME IInv, NEW t \in Threads, Decide(t)
  PROVE  IInv'
<1>1. CASE state' = "halted" /\ End(t)
  BY <1>1, EndKeeps DEF IInv, TypeOK, Decide, States, RecoveryUnsynced, Places
<1>2. CASE state' = "syncing" /\ Go(t, "check") /\ UNCHANGED <<job, disturbed>>
  <2>1. TypeOK' /\ RecoveryUnsynced'
    BY <1>2 DEF IInv, TypeOK, Decide, Go, States, RecoveryUnsynced
  <2>2. JobInv' /\ PlanInv'
    BY <1>2 DEF IInv, TypeOK, JobInv, PlanInv, Decide, Go, At
  <2> QED BY <2>1, <2>2 DEF IInv
<1> QED BY <1>1, <1>2 DEF Decide

LEMMA CheckKeeps ==
  ASSUME IInv, NEW t \in Threads, CheckDependencies(t)
  PROVE  IInv'
<1>1. CASE End(t)
  BY <1>1, EndKeeps DEF IInv, TypeOK, CheckDependencies, RecoveryUnsynced, Places
<1>2. CASE (Go(t, "ready") \/ Go(t, "refused")) /\ UNCHANGED <<job, disturbed>>
  <2>1. TypeOK' /\ RecoveryUnsynced'
    BY <1>2 DEF IInv, TypeOK, CheckDependencies, Go, RecoveryUnsynced
  <2>2. JobInv' /\ PlanInv'
    BY <1>2 DEF IInv, TypeOK, JobInv, PlanInv, CheckDependencies, Go, At
  <2> QED BY <2>1, <2>2 DEF IInv
<1> QED BY <1>1, <1>2 DEF CheckDependencies

LEMMA HaltRefusedKeeps ==
  ASSUME IInv, NEW t \in Threads, HaltRefused(t)
  PROVE  IInv'
<1>1. End(t) /\ ready' = ready
  BY DEF HaltRefused
<1> QED BY <1>1, EndKeeps DEF IInv, TypeOK, HaltRefused, States, RecoveryUnsynced, Places

(* The invoked component is in service: every plan fits as before, and the *)
(* job's own goes on without it.                                           *)
LEMMA MarkReadyKeeps ==
  ASSUME IInv, NEW t \in Threads, MarkReady(t)
  PROVE  IInv'
<1> DEFINE j == [job[t] EXCEPT !.todo = Tail(job[t].todo)]
<1>1. /\ job[t] \in Job /\ job[t].todo \in Seq(Components)
      /\ job[t].todo # << >> /\ pc[t] = "ready"
  BY DEF IInv, TypeOK, Job, JobInv, MarkReady, At
<1>2. /\ Head(job[t].todo) \in Components
      /\ Tail(job[t].todo) \in Seq(Components)
  BY <1>1
<1>3. /\ ready \subseteq ready' /\ ready' \subseteq Components
      /\ ready' = ready \cup {Head(job[t].todo)}
      /\ UNCHANGED <<state, mode, gates, calls>>
  BY <1>2 DEF IInv, TypeOK, MarkReady
<1>4. CASE End(t)
  BY <1>3, <1>4, EndKeeps DEF IInv, TypeOK, RecoveryUnsynced, Places
<1>5. ASSUME NEW place \in {"check", "finish"}, job' = [job EXCEPT ![t] = j],
             Go(t, place), UNCHANGED disturbed,
             place = "check" => Tail(job[t].todo) # << >>,
             place = "finish" => job[t].kind = "start"
      PROVE  IInv'
  <2>1. j \in Job /\ j.kind = job[t].kind /\ j.todo = Tail(job[t].todo)
    BY <1>1, <1>2 DEF Job
  <2>2. /\ pc' = [pc EXCEPT ![t] = place]
        /\ job'[t] = j /\ pc'[t] = place
        /\ \A u \in Threads \ {t} : pc'[u] = pc[u] /\ job'[u] = job[u]
    BY <1>5 DEF IInv, TypeOK, Go
  <2> HIDE DEF j
  <2>3. TypeOK' /\ RecoveryUnsynced'
    BY <1>3, <1>5, <2>1, <2>2 DEF IInv, TypeOK, RecoveryUnsynced
  <2>4. JobInv'
    BY <1>1, <1>5, <2>1, <2>2, ZenonT(60) DEF IInv, JobInv, At
  <2>5. PlanInv'
    <3> SUFFICES ASSUME NEW u \in Threads
                 PROVE  \/ At(u, "idle")' \/ u \in disturbed' \/ job'[u].kind = "invoke"
                        \/ Fits(job'[u].todo, ready')
      BY DEF PlanInv
    <3>1. \/ At(u, "idle") \/ u \in disturbed \/ job[u].kind = "invoke"
          \/ Fits(job[u].todo, ready)
      BY DEF IInv, PlanInv
    <3>2. CASE u = t
      <4>1. ASSUME Fits(job[t].todo, ready) PROVE Fits(Tail(job[t].todo), ready')
        BY <1>1, <1>3, <4>1, FitsAdvances
      <4> QED BY <1>1, <1>5, <2>1, <2>2, <3>1, <3>2, <4>1 DEF At
    <3>3. CASE u # t
      <4>1. ASSUME Fits(job[u].todo, ready) PROVE Fits(job[u].todo, ready')
        BY <1>3, <4>1, FitsGrows
      <4> QED BY <1>5, <2>2, <3>1, <3>3, <4>1 DEF At
    <3> QED BY <3>2, <3>3
  <2> QED BY <2>3, <2>4, <2>5 DEF IInv
<1> QED BY <1>4, <1>5 DEF MarkReady

LEMMA FinishKeeps ==
  ASSUME IInv, NEW t \in Threads, StartFinish(t)
  PROVE  IInv'
<1>1. End(t) /\ ready' = ready
  BY DEF StartFinish
<1> QED BY <1>1, EndKeeps DEF IInv, TypeOK, StartFinish, States, RecoveryUnsynced, Places

LEMMA NextIInv == IInv /\ [Next]_vars => IInv'
<1> SUFFICES ASSUME IInv, [Next]_vars PROVE IInv'
  OBVIOUS
<1>1. CASE \E t \in Threads : JobStep(t)
  BY <1>1, PreflightKeeps, PublishKeeps, DecideKeeps, CheckKeeps,
     HaltRefusedKeeps, MarkReadyKeeps, FinishKeeps DEF JobStep
<1>2. CASE \/ \E t \in Threads : ReconnectBegin(t)
           \/ \E t \in Threads, kind \in {"start", "preflight"},
                 valid \in BOOLEAN, m \in StartModes : PreflightBegin(t, kind, valid, m)
           \/ \E t \in Threads, c \in Invocable : InvokeBegin(t, c)
  BY <1>2, ReconnectKeeps, PreflightBeginKeeps, InvokeBeginKeeps
<1>3. CASE \/ \E fresh, synced \in BOOLEAN : MarkSynchronized(fresh, synced)
           \/ Pause \/ Stop \/ Recover
  BY <1>3, LockedKeeps, RecoverKeeps
<1>4. CASE UNCHANGED vars
  BY <1>4 DEF vars, IInv, TypeOK, JobInv, PlanInv, RecoveryUnsynced, At
<1> QED BY <1>1, <1>2, <1>3, <1>4 DEF Next

-----------------------------------------------------------------------------
(* THEOREMS *)

(* The inductive invariant holds throughout. *)
LEMMA Invariance == Spec => []IInv
<1> QED BY InitIInv, NextIInv, PTL DEF Spec

(* The snapshot and the jobs keep their types: in particular every gate of *)
(* the runtime is passed, failed or absent, and a job's plan is a sequence *)
(* of components.                                                          *)
THEOREM TypeCorrectness == Spec => []TypeOK
<1>1. IInv => TypeOK
  BY DEF IInv
<1> QED BY <1>1, Invariance, PTL

(* While the runtime recovers, neither synchronization gate is passed or   *)
(* failed, whatever jobs of whatever threads go on meanwhile.              *)
THEOREM Recovery == Spec => []RecoveryUnsynced
<1>1. IInv => RecoveryUnsynced
  BY DEF IInv
<1> QED BY <1>1, Invariance, PTL

(* start() and reconnect() are blocked at a component only when recover()  *)
(* ran meanwhile: run_sequence()'s and reconnect()'s orders fit the table  *)
(* of dependencies, and nothing but recover() takes a component away.      *)
THEOREM DependencyOrder == Spec => OnlyRecoveryBlocks
<1> DEFINE NotBlocked ==
      \A t \in Threads :
        (At(t, "check") /\ At(t, "refused")') => t \in disturbed
<1>1. ASSUME IInv, [Next]_vars PROVE NotBlocked
  <2> SUFFICES ASSUME NEW t \in Threads, At(t, "check"), At(t, "refused")',
                      t \notin disturbed
               PROVE  FALSE
    OBVIOUS
  <2>1. job[t].todo \in Seq(Components) /\ job[t].todo # << >>
    BY <1>1 DEF IInv, TypeOK, Job, JobInv, At
  <2>2. job[t].kind = "invoke" \/ Fits(job[t].todo, ready)
    BY <1>1 DEF IInv, PlanInv, At
  <2>3. job[t].kind = "invoke" \/ Dependencies[Head(job[t].todo)] \subseteq ready
    BY <2>1, <2>2, FitsAdvances
  <2>4. pc' # pc /\ pc[t] = "check" /\ pc'[t] = "refused"
    BY DEF At
  <2>5. ASSUME NEW u \in Threads, NEW place, Go(u, place), pc[u] # "check" \/ place # "refused"
        PROVE  FALSE
    BY <1>1, <2>4, <2>5 DEF Go, IInv, TypeOK
  <2>6. ASSUME NEW u \in Threads, JobStep(u) PROVE FALSE
    <3>1. CASE CheckDependencies(u)
      BY <1>1, <2>3, <2>4, <2>5, <3>1 DEF CheckDependencies, End, At, Go, IInv, TypeOK
    <3>2. CASE \/ \E killSwitch \in BOOLEAN : Preflight(u, killSwitch)
               \/ Publish(u) \/ Decide(u) \/ HaltRefused(u) \/ MarkReady(u)
               \/ StartFinish(u)
      BY <2>5, <3>2
         DEF Preflight, Publish, Decide, HaltRefused, MarkReady, StartFinish, End, At
    <3> QED BY <2>6, <3>1, <3>2 DEF JobStep
  <2>7. ASSUME NEW u \in Threads,
               \/ ReconnectBegin(u)
               \/ \E kind \in {"start", "preflight"}, valid \in BOOLEAN,
                    m \in StartModes : PreflightBegin(u, kind, valid, m)
               \/ \E c \in Invocable : InvokeBegin(u, c)
        PROVE  FALSE
    BY <2>5, <2>7 DEF ReconnectBegin, PreflightBegin, InvokeBegin, Begin
  <2>8. CASE \/ \E fresh, synced \in BOOLEAN : MarkSynchronized(fresh, synced)
             \/ Pause \/ Stop \/ Recover \/ UNCHANGED vars
    BY <2>4, <2>8 DEF MarkSynchronized, Pause, Stop, Recover, vars
  <2> QED BY <1>1, <2>6, <2>7, <2>8 DEF Next
<1>2. ASSUME IInv, [Next]_vars PROVE [NotBlocked]_vars
  BY <1>1, <1>2
<1> HIDE DEF NotBlocked
<1>3. Spec => [][NotBlocked]_vars
  BY <1>2, Invariance, PTL DEF Spec
<1> QED BY <1>3 DEF NotBlocked, OnlyRecoveryBlocks

-----------------------------------------------------------------------------
(* ONE STARTER *)

(* At most one thread starts the runtime, and preflight() is called by     *)
(* start() only.  Two concurrent starts, or a preflight() by itself,       *)
(* replace gates and mode under a running runtime.                         *)
OneStarter ==
  /\ \A s, t \in Owners : s = t
  /\ "preflight" \notin Kinds

(* Once published, the mode is the start's own. *)
ModeInv ==
  \A t \in Threads :
    /\ pc[t] \in {"decide", "check", "ready", "finish"}
    /\ job[t].kind = "start"
    => mode = job[t].mode

SyncInv == IInv /\ ModeInv /\ PaperRunsSynced

(* Steps that publish nothing and take no thread past a decision. *)
LEMMA QuietSteps ==
  ASSUME SyncInv, OneStarter, NEW t \in Threads,
         \/ \E killSwitch \in BOOLEAN : Preflight(t, killSwitch)
         \/ MarkReady(t)
         \/ CheckDependencies(t) \/ HaltRefused(t)
         \/ \E c \in Invocable : InvokeBegin(t, c)
         \/ \E kind \in {"start", "preflight"}, valid \in BOOLEAN,
              m \in StartModes : PreflightBegin(t, kind, valid, m)
  PROVE  ModeInv' /\ PaperRunsSynced'
<1>1. /\ UNCHANGED <<mode, gates>> /\ (state' = state \/ state' # "running")
      /\ pc[t] # "decide" /\ pc'[t] # "decide"
      /\ pc' = [pc EXCEPT ![t] = pc'[t]]
  BY DEF Preflight, MarkReady, CheckDependencies, HaltRefused, InvokeBegin,
         PreflightBegin, Begin, End, Go, At, SyncInv, IInv, TypeOK
<1>2. PaperRunsSynced'
  BY <1>1 DEF SyncInv, IInv, TypeOK, PaperRunsSynced, At
<1>3. \A u \in Threads \ {t} : pc'[u] = pc[u] /\ job'[u] = job[u]
  BY DEF Preflight, MarkReady, CheckDependencies, HaltRefused, InvokeBegin,
         PreflightBegin, Begin, End, Go, At, SyncInv, IInv, TypeOK
<1>4. \/ pc'[t] \in {"idle", "preflight", "publish", "refused"}
      \/ job'[t].kind # "start"
      \/ /\ pc[t] \in {"check", "ready"} /\ job[t].kind = "start"
         /\ job'[t].mode = job[t].mode
  <2>1. CASE \/ \E killSwitch \in BOOLEAN : Preflight(t, killSwitch)
             \/ \E kind \in {"start", "preflight"}, valid \in BOOLEAN,
                  m \in StartModes : PreflightBegin(t, kind, valid, m)
    BY <2>1 DEF Preflight, PreflightBegin, Begin, Go, SyncInv, IInv, TypeOK
  <2>2. ASSUME NEW c \in Invocable, InvokeBegin(t, c)
        PROVE  job'[t].kind = "invoke"
    BY <2>2 DEF InvokeBegin, Begin, Go, SyncInv, IInv, TypeOK, NoJob
  <2>3. CASE CheckDependencies(t) \/ HaltRefused(t)
    BY <2>3 DEF CheckDependencies, HaltRefused, End, Go, At, SyncInv, IInv, TypeOK
  <2>4. CASE MarkReady(t)
    <3> DEFINE j == [job[t] EXCEPT !.todo = Tail(job[t].todo)]
    <3>1. job[t] \in Job /\ pc[t] = "ready"
      BY <2>4 DEF MarkReady, At, SyncInv, IInv, TypeOK
    <3>2. j.kind = job[t].kind /\ j.mode = job[t].mode
      BY <3>1 DEF Job
    <3>3. pc'[t] = "idle" \/ job' = [job EXCEPT ![t] = j]
      BY <2>4 DEF MarkReady, End, Go, SyncInv, IInv, TypeOK
    <3> HIDE DEF j
    <3> QED BY <3>1, <3>2, <3>3 DEF SyncInv, IInv, TypeOK
  <2> QED BY <2>1, <2>2, <2>3, <2>4
<1>5. ModeInv'
  BY <1>1, <1>3, <1>4 DEF SyncInv, ModeInv
<1> QED BY <1>2, <1>5

(* start() publishes, decides and finishes. *)
LEMMA StarterSteps ==
  ASSUME SyncInv, OneStarter, NEW t \in Threads,
         Publish(t) \/ Decide(t) \/ StartFinish(t)
  PROVE  ModeInv' /\ PaperRunsSynced'
<1>1. /\ job[t].kind = "start" /\ t \in Owners /\ pc[t] # "idle"
      /\ \A u \in Threads \ {t} : pc[u] = "idle" \/ job[u].kind # "start"
  BY DEF Publish, Decide, StartFinish, At, SyncInv, IInv, JobInv, OneStarter
<1>2. \A u \in Threads \ {t} : pc'[u] = pc[u] /\ job'[u] = job[u]
  BY DEF Publish, Decide, StartFinish, End, Go, SyncInv, IInv, TypeOK
<1>3. CASE Publish(t)
  BY <1>1, <1>2, <1>3
     DEF Publish, Go, At, ModeInv, PaperRunsSynced, SyncInv, IInv, TypeOK
<1>4. CASE Decide(t)
  BY <1>1, <1>2, <1>4
     DEF Decide, End, Go, At, ModeInv, PaperRunsSynced, SyncInv, IInv, TypeOK
<1>5. CASE StartFinish(t)
  BY <1>1, <1>2, <1>5
     DEF StartFinish, End, Go, At, ModeInv, PaperRunsSynced, SyncInv, IInv, TypeOK
<1> QED BY <1>3, <1>4, <1>5

(* Whatever takes the runtime out of service, and mark_synchronized(). *)
LEMMA StateSteps ==
  ASSUME SyncInv,
         \/ \E fresh, synced \in BOOLEAN : MarkSynchronized(fresh, synced)
         \/ Pause \/ Stop \/ Recover
         \/ \E t \in Threads : ReconnectBegin(t)
         \/ UNCHANGED vars
  PROVE  ModeInv' /\ PaperRunsSynced'
<1>1. ASSUME NEW fresh \in BOOLEAN, NEW synced \in BOOLEAN,
             MarkSynchronized(fresh, synced)
      PROVE  ModeInv' /\ PaperRunsSynced'
  <2>1. ModeInv'
    BY <1>1 DEF SyncInv, ModeInv, MarkSynchronized
  <2>2. gates \in [Gates -> {"passed", "failed", "absent"}] /\ SyncGates \subseteq Gates
    BY DEF SyncInv, IInv, TypeOK, Gates
  <2>3. state' = "running" => \A g \in SyncGates : gates'[g] = "passed"
    BY <1>1, <2>2 DEF MarkSynchronized, SyncGates
  <2> QED BY <2>1, <2>3 DEF PaperRunsSynced
<1>2. CASE Pause \/ Stop \/ Recover
  BY <1>2 DEF SyncInv, ModeInv, PaperRunsSynced, Pause, Stop, Recover, Reset
<1>3. ASSUME NEW t \in Threads, ReconnectBegin(t)
      PROVE  ModeInv' /\ PaperRunsSynced'
  <2>1. /\ \A u \in Threads \ {t} : pc'[u] = pc[u] /\ job'[u] = job[u]
        /\ job'[t].kind = "reconnect" /\ mode' = mode /\ state' = "recovery"
    BY <1>3 DEF ReconnectBegin, Begin, Go, Reset, SyncInv, IInv, TypeOK, NoJob, Job
  <2> QED BY <2>1 DEF SyncInv, ModeInv, PaperRunsSynced
<1>4. CASE UNCHANGED vars
  BY <1>4 DEF SyncInv, ModeInv, PaperRunsSynced, At, vars
<1> QED BY <1>1, <1>2, <1>3, <1>4

LEMMA NextSyncInv == ASSUME OneStarter PROVE SyncInv /\ [Next]_vars => SyncInv'
<1> SUFFICES ASSUME SyncInv, [Next]_vars PROVE SyncInv'
  OBVIOUS
<1>1. IInv'
  BY NextIInv DEF SyncInv
<1>2. ModeInv' /\ PaperRunsSynced'
  BY OneStarter, QuietSteps, StarterSteps, StateSteps DEF Next, JobStep
<1> QED BY <1>1, <1>2 DEF SyncInv

(* "Non-bypassable paper gates": with one thread that starts the runtime,  *)
(* paper trading runs only while stream and broker have been reported      *)
(* synchronized since the last start, recovery or reconnect, however many  *)
(* threads recover, reconnect, invoke and report meanwhile.                *)
THEOREM Synchronization == ASSUME OneStarter PROVE Spec => []PaperRunsSynced
<1>1. Init => SyncInv
  BY InitIInv DEF SyncInv, ModeInv, PaperRunsSynced, Init
<1>2. SyncInv => PaperRunsSynced
  BY DEF SyncInv
<1> QED BY <1>1, <1>2, NextSyncInv, PTL DEF Spec

=============================================================================
