----------------------------- MODULE WorkerPool -----------------------------
(***************************************************************************)
(* The two fan-outs over a persistent thread pool: infer() and close() of  *)
(* ParallelSignalEngine (models/parallel_engine.py) and of                 *)
(* IndependentAgentHub (orchestration/agent_hub.py).  They differ in how   *)
(* they collect: the engine waits for its futures in the order of its      *)
(* models, the hub takes them as they complete and sorts them by agent.    *)
(*                                                                         *)
(* Threads call infer() while another calls close().  The executor is      *)
(* external: a first-in first-out queue and a number of workers, which     *)
(* after its shutdown takes nothing more and has cancelled what waits.     *)
(* The pool may be one handed to the engine, which close() then leaves     *)
(* alone.  An agent returns a signal or raises.                            *)
(***************************************************************************)
EXTENDS Naturals, Sequences, FiniteSets, SequencesExt

CONSTANTS
  Agents,    \* the agents in the order they are submitted
  Sorted,    \* and in the order of their ids
  Clients,   \* threads that call infer(), once each
  Workers    \* of the pool
PoolAssumption ==
  /\ Workers \in Nat \ {0}
  /\ Agents \in Seq(ToSet(Agents)) /\ Sorted \in Seq(ToSet(Agents))
  /\ ToSet(Agents) = ToSet(Sorted) /\ Len(Agents) = Len(Sorted)
  /\ Cardinality(ToSet(Agents)) = Len(Agents)

VARIABLES
  kind,      \* whose infer() it is: "engine" or "hub"
  owns,      \* _owns_executor
  closing,   \* close(): "open", "closing" or "closed"
  call,      \* client -> where its infer() is, what it submitted and has
  waiting,   \* the pool's queue of futures <<client, agent>>
  running,   \* futures being worked on
  outcome    \* future -> none, "signal", "error" or "cancelled"

vars == <<kind, owns, closing, call, waiting, running, outcome>>

Futures == Clients \X ToSet(Agents)
Done(future) == outcome[future] # "none"

TypeOK ==
  /\ kind \in {"engine", "hub"} /\ owns \in BOOLEAN
  /\ closing \in {"open", "closing", "closed"}
  /\ \A c \in Clients :
       /\ call[c].at \in {"idle", "submitting", "collecting", "returned", "raised"}
       /\ call[c].submitted \in 0..Len(Agents)
  /\ ToSet(waiting) \subseteq Futures
  /\ running \subseteq Futures /\ Cardinality(running) <= Workers
  /\ outcome \in [Futures -> {"none", "signal", "error", "cancelled"}]

Init ==
  /\ kind \in {"engine", "hub"}
  /\ owns \in IF kind = "hub" THEN {TRUE} ELSE BOOLEAN
  /\ closing = "open"
  /\ call = [c \in Clients |-> [at |-> "idle", submitted |-> 0, results |-> << >>]]
  /\ waiting = << >>
  /\ running = {}
  /\ outcome = [f \in Futures |-> "none"]

-----------------------------------------------------------------------------
Shut == owns /\ closing # "open"

Begin(c) ==
  /\ call[c].at = "idle"
  /\ call' = [call EXCEPT ![c].at = "submitting"]
  /\ UNCHANGED <<kind, owns, closing, waiting, running, outcome>>

(* submit() of the next agent; it raises once the pool is shut down, and   *)
(* infer() with it.                                                        *)
Submit(c) ==
  /\ call[c].at = "submitting"
  /\ call[c].submitted < Len(Agents)
  /\ IF Shut
     THEN call' = [call EXCEPT ![c].at = "raised"] /\ UNCHANGED waiting
     ELSE /\ call' = [call EXCEPT ![c].submitted = @ + 1]
          /\ waiting' = Append(waiting, <<c, Agents[call[c].submitted + 1]>>)
  /\ UNCHANGED <<kind, owns, closing, running, outcome>>

Submitted(c) ==
  /\ call[c].at = "submitting"
  /\ call[c].submitted = Len(Agents)
  /\ call' = [call EXCEPT ![c].at = "collecting"]
  /\ UNCHANGED <<kind, owns, closing, waiting, running, outcome>>

Collected(c) == {r[1] : r \in ToSet(call[c].results)}

(* The futures infer() may take next. *)
Collectable(c) ==
  IF kind = "engine" THEN {Agents[Len(call[c].results) + 1]}
  ELSE ToSet(Agents) \ Collected(c)

(* What the caller is given of a future: the signal of its own observation *)
(* or the name of an error.                                                *)
Given(c, a) ==
  <<a, IF outcome[<<c, a>>] = "signal" THEN "signal" ELSE "error">>

Collect(c) ==
  /\ call[c].at = "collecting"
  /\ Len(call[c].results) < Len(Agents)
  /\ \E a \in Collectable(c) :
       /\ Done(<<c, a>>)
       /\ call' = [call EXCEPT ![c].results = Append(@, Given(c, a))]
  /\ UNCHANGED <<kind, owns, closing, waiting, running, outcome>>

(* The hub sorts what it collected by agent. *)
Arranged(c) ==
  IF kind = "engine" THEN call[c].results
  ELSE [i \in DOMAIN Sorted |->
         CHOOSE r \in ToSet(call[c].results) : r[1] = Sorted[i]]
Return(c) ==
  /\ call[c].at = "collecting"
  /\ Len(call[c].results) = Len(Agents)
  /\ call' = [call EXCEPT ![c].at = "returned", ![c].results = Arranged(c)]
  /\ UNCHANGED <<kind, owns, closing, waiting, running, outcome>>

-----------------------------------------------------------------------------
(* The executor *)

Work ==
  /\ waiting # << >> /\ Cardinality(running) < Workers
  /\ running' = running \cup {Head(waiting)}
  /\ waiting' = Tail(waiting)
  /\ UNCHANGED <<kind, owns, closing, call, outcome>>

AgentEnds(f) ==
  /\ f \in running
  /\ running' = running \ {f}
  /\ \E result \in {"signal", "error"} : outcome' = [outcome EXCEPT ![f] = result]
  /\ UNCHANGED <<kind, owns, closing, call, waiting>>

(* Mutant of Close: the futures that wait are dropped, not cancelled. *)
CloseForgets ==
  /\ closing = "open"
  /\ IF owns THEN closing' = "closing" /\ waiting' = << >>
             ELSE closing' = "closed" /\ UNCHANGED waiting
  /\ UNCHANGED <<kind, owns, call, running, outcome>>

(* close(): shutdown of an own pool cancels what waits ...                 *)
Close ==
  /\ closing = "open"
  /\ IF owns
     THEN /\ closing' = "closing"
          /\ outcome' = [f \in Futures |->
                          IF f \in ToSet(waiting) THEN "cancelled" ELSE outcome[f]]
          /\ waiting' = << >>
     ELSE closing' = "closed" /\ UNCHANGED <<outcome, waiting>>
  /\ UNCHANGED <<kind, owns, call, running>>

(* ... and joins the workers. *)
Joined ==
  /\ closing = "closing"
  /\ running = {}
  /\ closing' = "closed"
  /\ UNCHANGED <<kind, owns, call, waiting, running, outcome>>

Step(c) == Submit(c) \/ Submitted(c) \/ Collect(c) \/ Return(c)

Next ==
  \/ \E c \in Clients : Begin(c) \/ Step(c)
  \/ \E f \in Futures : AgentEnds(f)
  \/ Work \/ Close \/ Joined

Spec == Init /\ [][Next]_vars

-----------------------------------------------------------------------------
(* Agents fail alone: a call that returns has one result of each agent, in *)
(* the order its caller expects, with the signal of every agent that gave  *)
(* one for this call; a call raises only when the pool has been closed     *)
(* under it; and when close() is over nothing runs or waits (infer, close).*)
FailuresIsolated ==
  /\ \A c \in Clients :
       /\ call[c].at = "returned" =>
            call[c].results = LET order == IF kind = "hub" THEN Sorted ELSE Agents IN
                              [i \in DOMAIN order |-> Given(c, order[i])]
       /\ call[c].at = "raised" => Shut
  /\ owns /\ closing = "closed" => waiting = << >> /\ running = {}

(* infer() and close() come to an end when the agents do, also when they   *)
(* race: no call waits for a future that nobody will complete.             *)
PoolEnds ==
  /\ \A c \in Clients : call[c].at # "idle" ~> call[c].at \in {"returned", "raised"}
  /\ closing = "closing" ~> closing = "closed"
=============================================================================
