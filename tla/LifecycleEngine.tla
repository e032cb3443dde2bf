-------------------------- MODULE LifecycleEngine --------------------------
(***************************************************************************)
(* MultiLegExecutionEngine (execution/lifecycle_engine.py), the reconciler *)
(* it calls (execution/reconciliation.py) and the broker on the other side *)
(* of the PaperBroker protocol.                                            *)
(*                                                                         *)
(* The engine is synchronous and single-threaded: while submit() is in its *)
(* loop no other engine method runs, but the broker moves on its own       *)
(* between the calls of the loop.  submit() is therefore one action to     *)
(* enter, one per leg and one to return; every other method is one action. *)
(* The broker fills and closes orders at any time; what it reports reaches *)
(* the legs later, possibly out of order, twice or never.                  *)
(***************************************************************************)
EXTENDS MultiLeg, Sequences, FiniteSets, Functions

CONSTANTS
  Packages,     \* package ids
  Legs,         \* leg objects, each held by one package
  Clients,      \* client order ids
  LegSeq,       \* the legs of a package, in submission order
  Client,       \* the client order id of a leg
  Symbols,      \* option symbols
  Symbol,       \* the symbol an order id trades
  Side,         \* +1 buys, -1 sells
  Quantity,     \* contracts ordered under a client id
  Tolerance,    \* BrokerReconciler.quantity_tolerance
  Dims,         \* the greeks that are limited
  Limit,        \* GreeksRiskLimits, per dimension
  Held,         \* greeks a package already holds when it is registered
  Proposals,    \* the greeks a caller may propose for a package
  Faults,       \* the kinds of fault this instance allows
  MaxFaults     \* bound: faults in one behaviour

FaultKinds == {"refused",      \* submit_leg raises, the broker has no order
               "ack_lost",     \* submit_leg raises after the broker accepted
               "report_lost",  \* a broker report never reaches the legs
               "reordered",    \* an end-of-order report overtakes fills
               "repeated",     \* a fill report is delivered twice
               "uncertain",    \* a caller marks a leg UNCERTAIN
               "recover",      \* a caller runs recover_unknown
               "expired",      \* a caller expires a leg that was never sent
               "check_failed", \* the snapshot provider of the periodic check raises
               "restart"}      \* the process dies and its state is rebuilt

None == "none"

ASSUME StaticAssumption ==
  /\ IsFiniteSet(Packages) /\ None \notin Packages
  /\ IsFiniteSet(Legs) /\ IsFiniteSet(Clients)
  /\ LegSeq \in [Packages -> Seq(Legs)]
  /\ Client \in [Legs -> Clients]
  /\ Symbol \in [Clients -> Symbols]
  /\ Side \in [Clients -> {-1, 1}]
  /\ Quantity \in [Clients -> Nat \ {0}]
  /\ Tolerance \in Nat

ASSUME GreeksAssumption ==
  /\ Limit \in [Dims -> Nat]
  /\ Held \in [Packages -> [Dims -> Int]]
  /\ Proposals \subseteq [Dims -> Int]

ASSUME FaultAssumption == Faults \subseteq FaultKinds /\ MaxFaults \in Nat

-----------------------------------------------------------------------------
VARIABLES
  registered,      \* MultiLegExecutionEngine.packages: the ids in it
  greeks,          \* MultiLegPackage.current_greeks
  pkgBlocked,      \* MultiLegPackage.blocked
  legs,            \* the mutable part of every Leg
  submittedIds,    \* MultiLegExecutionEngine.submitted_ids
  reconBlocked,    \* MultiLegExecutionEngine.reconciliation_blocked
  lastResult,      \* BrokerReconciler.last_result: none, ok or drift
  submitting,      \* the package whose submit() is in its loop, or None
  next,            \* index of the leg the loop handles next
  order,           \* broker: the order under each client id
  unreported,      \* broker: contracts filled and not yet reported
  endReport,       \* broker: order ids whose end is not yet reported
  faults,          \* faults so far
  repeats          \* history: contracts whose report was delivered twice

engineVars == <<registered, greeks, pkgBlocked, legs, submittedIds,
                reconBlocked, lastResult, submitting, next>>
brokerVars == <<order, unreported, endReport>>
vars == <<engineVars, brokerVars, faults, repeats>>

OrderStates == {"none", "live", "filled", "cancelled", "rejected", "expired"}

NoOrder == [status |-> "none", filled |-> 0]

TypeOK ==
  /\ registered \subseteq Packages
  /\ greeks \in [Packages -> [Dims -> Int]]
  /\ pkgBlocked \in [Packages -> BOOLEAN]
  /\ legs \in [Legs -> LegRecord]
  /\ submittedIds \subseteq Clients
  /\ reconBlocked \in BOOLEAN
  /\ lastResult \in {"none", "ok", "drift"}
  /\ submitting \in Packages \cup {None}
  /\ next \in Nat
  /\ order \in [Clients -> [status : OrderStates, filled : Nat]]
  /\ unreported \in [Clients -> Nat]
  /\ endReport \subseteq Clients
  /\ faults \in Nat
  /\ repeats \in [Clients -> Nat]

-----------------------------------------------------------------------------
(* DERIVED STATE *)

LegsOf(p) == {LegSeq[p][i] : i \in DOMAIN LegSeq[p]}

(* The legs the engine can see: those of the registered packages. *)
KnownLegs == UNION {LegsOf(p) : p \in registered}

PackageState(p) == StrategyState({legs[l].state : l \in LegsOf(p)})

(* Mutant of PortfolioWith: the other packages are left out. *)
PortfolioAlone(p, proposed) == [d \in Dims |-> Held[p][d] + proposed[d]]

(* _portfolio_greeks plus the holdings and the proposal of a new package.  *)
PortfolioWith(p, proposed) ==
  [d \in Dims |->
     SumFunction([q \in registered |-> greeks[q][d]]) + Held[p][d] + proposed[d]]

-----------------------------------------------------------------------------
(* RECONCILIATION (BrokerReconciler.reconcile) *)

(* Mutant of NoOrderExpected: planned legs are compared like working ones. *)
NoOrderExpectedOnceClosed == {"cancelled", "rejected", "expired"}

NoOrderExpected == {"planned", "cancelled", "rejected", "expired"}

(* The filled count the snapshot shows under an id, -1 when it has none.   *)
ActualOrder(c) == IF order[c].status = "none" THEN -1 ELSE order[c].filled

(* Broker orders that no leg of any package claims. *)
UnknownOrders ==
  {c \in Clients : order[c].status # "none"} \ {Client[l] : l \in KnownLegs}

OrderDrift ==
  \E l \in KnownLegs :
    /\ legs[l].state \notin NoOrderExpected
    /\ Magnitude(ActualOrder(Client[l]) - legs[l].filled) > Tolerance

ExpectedPosition(s) ==
  LET held == {l \in KnownLegs : Symbol[Client[l]] = s} IN
  SumFunction([l \in held |-> Side[Client[l]] * legs[l].filled])

BrokerPosition(s) ==
  LET traded == {c \in Clients : Symbol[c] = s} IN
  SumFunction([c \in traded |-> Side[c] * order[c].filled])

PositionDrift ==
  \E s \in Symbols :
    Magnitude(BrokerPosition(s) - ExpectedPosition(s)) > Tolerance

(* Mutant of Reconciled: positions are not compared. *)
OrdersReconciled == UnknownOrders = {} /\ ~OrderDrift

Reconciled == UnknownOrders = {} /\ ~OrderDrift /\ ~PositionDrift

-----------------------------------------------------------------------------
Init ==
  /\ registered = {}
  /\ greeks = Held
  /\ pkgBlocked = [p \in Packages |-> FALSE]
  /\ legs = [l \in Legs |-> NewLeg]
  /\ submittedIds = {}
  /\ reconBlocked = TRUE
  /\ lastResult = "none"
  /\ submitting = None
  /\ next = 1
  /\ order = [c \in Clients |-> NoOrder]
  /\ unreported = [c \in Clients |-> 0]
  /\ endReport = {}
  /\ faults = 0
  /\ repeats = [c \in Clients |-> 0]

Idle == submitting = None

Fault(kind) ==
  /\ kind \in Faults
  /\ faults < MaxFaults
  /\ faults' = faults + 1

-----------------------------------------------------------------------------
(* ENGINE: register, submit, reconcile, recover_unknown *)

Register(p, proposed) ==
  /\ Idle
  /\ p \notin registered
  /\ Approved(PortfolioWith(p, proposed), Limit)
  /\ greeks' = [greeks EXCEPT ![p] = proposed]
  /\ registered' = registered \cup {p}
  /\ UNCHANGED <<pkgBlocked, legs, submittedIds, reconBlocked, lastResult,
                 submitting, next, brokerVars, faults, repeats>>

(* Mutant of SubmitBegin: reconciliation_blocked is not read. *)
SubmitBeginUnchecked(p) ==
  /\ Idle
  /\ p \in registered
  /\ ~pkgBlocked[p]
  /\ PackageState(p) = "working"
  /\ submitting' = p
  /\ next' = 1
  /\ UNCHANGED <<registered, greeks, pkgBlocked, legs, submittedIds,
                 reconBlocked, lastResult, brokerVars, faults, repeats>>

(* The guards of submit(), all read before the loop starts. *)
SubmitBegin(p) ==
  /\ Idle
  /\ ~reconBlocked
  /\ p \in registered
  /\ ~pkgBlocked[p]
  /\ PackageState(p) = "working"
  /\ submitting' = p
  /\ next' = 1
  /\ UNCHANGED <<registered, greeks, pkgBlocked, legs, submittedIds,
                 reconBlocked, lastResult, brokerVars, faults, repeats>>

AtLeg(l) ==
  /\ ~Idle
  /\ next \in DOMAIN LegSeq[submitting]
  /\ l = LegSeq[submitting][next]

SubmitSkip(l) ==
  /\ AtLeg(l)
  /\ Client[l] \in submittedIds
  /\ next' = next + 1
  /\ UNCHANGED <<registered, greeks, pkgBlocked, legs, submittedIds,
                 reconBlocked, lastResult, submitting, brokerVars, faults, repeats>>

(* The loop reaches broker.submit_leg(leg). *)
Calling(l) == AtLeg(l) /\ Client[l] \notin submittedIds

Place(c) == order' = [order EXCEPT ![c] = [status |-> "live", filled |-> 0]]

(* An exception out of the loop: submit() is over, the legs before this    *)
(* one stay submitted.                                                     *)
Abandon == submitting' = None /\ next' = 1

(* submit_leg returns.  The id is recorded before the acknowledgement is   *)
(* applied, and a leg that is no longer planned refuses it by raising.     *)
SubmitAcked(l) ==
  /\ Calling(l)
  /\ order[Client[l]].status = "none"
  /\ Place(Client[l])
  /\ submittedIds' = submittedIds \cup {Client[l]}
  /\ legs' = [legs EXCEPT ![l] =
                 Apply(@, Quantity[Client[l]], "submit_ack", 0)]
  /\ IF Accepts(legs[l], Quantity[Client[l]], "submit_ack", 0)
       THEN next' = next + 1 /\ UNCHANGED submitting
       ELSE Abandon
  /\ UNCHANGED <<registered, greeks, pkgBlocked, reconBlocked, lastResult,
                 unreported, endReport, faults, repeats>>

(* Mutants of SubmitRaised, with a refused order only: the acknowledgement *)
(* is applied before the call, the id is recorded before the call, and the *)
(* exception is swallowed.                                                 *)
Refused(l) ==
  /\ Calling(l)
  /\ order[Client[l]].status = "none"
  /\ Fault("refused")
  /\ UNCHANGED <<registered, greeks, pkgBlocked, reconBlocked, lastResult,
                 brokerVars, repeats>>

RaisedAfterAck(l) ==
  /\ Refused(l)
  /\ legs' = [legs EXCEPT ![l] = Apply(@, Quantity[Client[l]], "submit_ack", 0)]
  /\ Abandon
  /\ UNCHANGED submittedIds

RaisedAfterRecord(l) ==
  /\ Refused(l)
  /\ submittedIds' = submittedIds \cup {Client[l]}
  /\ Abandon
  /\ UNCHANGED legs

RaisedAndSwallowed(l) ==
  /\ Refused(l)
  /\ next' = next + 1
  /\ UNCHANGED <<legs, submittedIds, submitting>>

(* submit_leg raises: the broker refused, or accepted and its answer was   *)
(* lost, or holds an order under this id already and refuses a second one. *)
SubmitRaised(l) ==
  /\ Calling(l)
  /\ \/ /\ order[Client[l]].status = "none"
        /\ Fault("refused")
        /\ UNCHANGED order
     \/ /\ order[Client[l]].status = "none"
        /\ Fault("ack_lost")
        /\ Place(Client[l])
     \/ /\ order[Client[l]].status # "none"
        /\ UNCHANGED <<order, faults>>
  /\ Abandon
  /\ UNCHANGED <<registered, greeks, pkgBlocked, legs, submittedIds,
                 reconBlocked, lastResult, unreported, endReport, repeats>>

SubmitReturn ==
  /\ ~Idle
  /\ next \notin DOMAIN LegSeq[submitting]
  /\ Abandon
  /\ UNCHANGED <<registered, greeks, pkgBlocked, legs, submittedIds,
                 reconBlocked, lastResult, brokerVars, faults, repeats>>

Reconcile ==
  LET ok == Reconciled IN
  /\ Idle
  /\ reconBlocked' = ~ok
  /\ lastResult' = IF ok THEN "ok" ELSE "drift"
  /\ pkgBlocked' = [p \in Packages |->
                      IF p \in registered THEN ~ok ELSE pkgBlocked[p]]
  /\ UNCHANGED <<registered, greeks, legs, submittedIds, submitting, next,
                 brokerVars, faults, repeats>>

RecoverUnknown ==
  /\ Idle
  /\ Fault("recover")
  /\ reconBlocked' = TRUE
  /\ pkgBlocked' = [p \in Packages |-> p \in registered \/ pkgBlocked[p]]
  /\ UNCHANGED <<registered, greeks, legs, submittedIds, lastResult,
                 submitting, next, brokerVars, repeats>>

-----------------------------------------------------------------------------
(* REPORTS: the events callers apply to the legs of registered packages *)

Update(l, event, q) ==
  legs' = [legs EXCEPT ![l] = Apply(@, Quantity[Client[l]], event, q)]

(* apply_fill.  A report of a leg that cannot take it raises and is gone.  *)
DeliverFill(l, q) ==
  /\ Idle
  /\ l \in KnownLegs
  /\ q \in 1 .. unreported[Client[l]]
  /\ Update(l, "fill", q)
  /\ unreported' = [unreported EXCEPT ![Client[l]] = @ - q]
  /\ UNCHANGED <<registered, greeks, pkgBlocked, submittedIds, reconBlocked,
                 lastResult, submitting, next, order, endReport, faults, repeats>>

(* The same report once more. *)
RepeatFill(l, q) ==
  /\ Idle
  /\ l \in KnownLegs
  /\ q \in 1 .. order[Client[l]].filled - unreported[Client[l]]
  /\ Fault("repeated")
  /\ Update(l, "fill", q)
  /\ repeats' = [repeats EXCEPT ![Client[l]] = @ + q]
  /\ UNCHANGED <<registered, greeks, pkgBlocked, submittedIds, reconBlocked,
                 lastResult, submitting, next, brokerVars>>

EndEvent == [cancelled |-> "cancel_ack", rejected |-> "reject",
             expired |-> "expire"]

(* The end of an order, normally reported after all of its fills. *)
DeliverEnd(l) ==
  /\ Idle
  /\ l \in KnownLegs
  /\ Client[l] \in endReport
  /\ \/ unreported[Client[l]] = 0 /\ UNCHANGED faults
     \/ unreported[Client[l]] > 0 /\ Fault("reordered")
  /\ Update(l, EndEvent[order[Client[l]].status], 0)
  /\ endReport' = endReport \ {Client[l]}
  /\ UNCHANGED <<registered, greeks, pkgBlocked, submittedIds, reconBlocked,
                 lastResult, submitting, next, order, unreported, repeats>>

(* A report is lost on the way, or names an order no known leg has.        *)
LoseReport(c) ==
  /\ \/ Fault("report_lost")
     \/ Idle /\ c \notin {Client[l] : l \in KnownLegs} /\ UNCHANGED faults
  /\ \/ \E q \in 1 .. unreported[c] :
          /\ unreported' = [unreported EXCEPT ![c] = @ - q]
          /\ UNCHANGED endReport
     \/ /\ c \in endReport
        /\ endReport' = endReport \ {c}
        /\ UNCHANGED unreported
  /\ UNCHANGED <<engineVars, order, repeats>>

(* A caller that does not know what became of an order says so. *)
MarkUncertain(l) ==
  /\ Idle
  /\ l \in KnownLegs
  /\ legs[l].state \in {"submitted", "partially_filled"}
  /\ Fault("uncertain")
  /\ Update(l, "uncertain", 0)
  /\ UNCHANGED <<registered, greeks, pkgBlocked, submittedIds, reconBlocked,
                 lastResult, submitting, next, brokerVars, repeats>>

(* The contract of a leg that was never sent expires. *)
ExpireUnsent(l) ==
  /\ Idle
  /\ l \in KnownLegs
  /\ legs[l].state = "planned"
  /\ Fault("expired")
  /\ Update(l, "expire", 0)
  /\ UNCHANGED <<registered, greeks, pkgBlocked, submittedIds, reconBlocked,
                 lastResult, submitting, next, brokerVars, repeats>>

(* The process dies.  Nothing of the engine is persisted: packages and     *)
(* legs are built anew and registered again by the caller.                 *)
Restart ==
  /\ Fault("restart")
  /\ registered' = {}
  /\ greeks' = Held
  /\ pkgBlocked' = [p \in Packages |-> FALSE]
  /\ legs' = [l \in Legs |-> NewLeg]
  /\ submittedIds' = {}
  /\ reconBlocked' = TRUE
  /\ lastResult' = "none"
  /\ Abandon
  /\ repeats' = [c \in Clients |-> 0]
  /\ UNCHANGED brokerVars

-----------------------------------------------------------------------------
(* BROKER (external) *)

BrokerFill(c, q) ==
  /\ order[c].status = "live"
  /\ q \in 1 .. Quantity[c] - order[c].filled
  /\ order' = [order EXCEPT ![c] =
       [status |-> IF @.filled + q = Quantity[c] THEN "filled" ELSE "live",
        filled |-> @.filled + q]]
  /\ unreported' = [unreported EXCEPT ![c] = @ + q]
  /\ UNCHANGED <<engineVars, endReport, faults, repeats>>

BrokerEnd(c, status) ==
  /\ order[c].status = "live"
  /\ status = "rejected" => order[c].filled = 0
  /\ order' = [order EXCEPT ![c].status = status]
  /\ endReport' = endReport \cup {c}
  /\ UNCHANGED <<engineVars, unreported, faults, repeats>>

-----------------------------------------------------------------------------
SubmitStep ==
  \/ SubmitReturn
  \/ \E l \in Legs : SubmitSkip(l) \/ SubmitAcked(l) \/ SubmitRaised(l)

DeliverStep(l) ==
  \/ DeliverEnd(l)
  \/ \E q \in 1 .. unreported[Client[l]] : DeliverFill(l, q)

BrokerStep(c) ==
  \/ \E q \in 1 .. Quantity[c] : BrokerFill(c, q)
  \/ \E s \in {"cancelled", "rejected", "expired"} : BrokerEnd(c, s)

CallerStep(l) ==
  \/ MarkUncertain(l)
  \/ ExpireUnsent(l)
  \/ \E q \in 1 .. Quantity[Client[l]] : RepeatFill(l, q)

Next ==
  \/ \E p \in Packages, g \in Proposals : Register(p, g)
  \/ \E p \in Packages : SubmitBegin(p)
  \/ SubmitStep
  \/ Reconcile
  \/ RecoverUnknown
  \/ Restart
  \/ \E l \in Legs : DeliverStep(l) \/ CallerStep(l)
  \/ \E c \in Clients : BrokerStep(c) \/ LoseReport(c)

Spec == Init /\ [][Next]_vars

-----------------------------------------------------------------------------
(* PROPERTIES *)

(* What one leg may look like: its fill count and its state agree, and it  *)
(* is never filled beyond its quantity, whatever reports are lost,         *)
(* reordered or repeated (Leg.apply).                                      *)
LegConsistent == \A l \in Legs : WellFormed(legs[l], Quantity[Client[l]])

(* A leg the engine believes to be working or done was really accepted by  *)
(* the broker in this life of the process, and its id is recorded so that  *)
(* no later submit() sends it again.                                       *)
LiveLegHasOrder ==
  \A l \in Legs :
    legs[l].state \in {"submitted", "partially_filled", "filled"} =>
      /\ Client[l] \in submittedIds
      /\ order[Client[l]].status # "none"

(* The engine books no contract the broker did not execute: local fills    *)
(* plus the fills still under way exceed those at the broker by no more    *)
(* than what was reported twice, through lost and reordered reports, lost  *)
(* acknowledgements, early expiry and restarts.                            *)
NeverOverbooked ==
  \A l \in Legs :
    legs[l].filled + unreported[Client[l]]
      <= order[Client[l]].filled + repeats[Client[l]]

(* A leg that is cancelled, rejected or expired has no live order at the   *)
(* broker (reconcile() does not look for one).                             *)
ClosedLegHasNoLiveOrder ==
  \A l \in Legs :
    legs[l].state \in {"cancelled", "rejected", "expired"} =>
      order[Client[l]].status # "live"

(* The greeks the engine has on its books for the registered packages stay *)
(* in the limits in every dimension, although each package was approved    *)
(* against the books of its own moment.                                    *)
BookedGreeksInLimit ==
  Approved([d \in Dims |->
              SumFunction([p \in registered |-> greeks[p][d]])], Limit)

(* The exposure of the portfolio, what the registered packages held before *)
(* plus what was approved for them, stays in the limits.                   *)
ExposureInLimit ==
  Approved([d \in Dims |->
              SumFunction([p \in registered |-> Held[p][d] + greeks[p][d]])],
           Limit)

(* The legs of the registered packages agree with the broker.              *)
Agree ==
  \A l \in KnownLegs : legs[l].filled = order[Client[l]].filled

(* No false alarm: without faults, once every report has been delivered    *)
(* and no submit() is under way, reconcile() finds nothing to complain of. *)
NoFalseAlarm ==
  (/\ Idle
   /\ faults = 0
   /\ \A c \in Clients : unreported[c] = 0
   /\ endReport = {}) => Reconciled

(* No missed mismatch: when reconcile() lifts the block, every leg agrees  *)
(* with its order at the broker, the legs whose orders are not compared    *)
(* one by one (planned and closed ones) included.  An over-booking can     *)
(* hide a lost fill of the same symbol, so no report is repeated here.     *)
UnblockedOnlyInAgreement ==
  [][(/\ lastResult' = "ok"
      /\ Reconcile
      /\ \A c \in Clients : repeats[c] = 0) => Agree]_vars

Placed(c) == order[c].status = "none" /\ order'[c].status = "live"

(* No order reaches the broker unless the last reconciliation succeeded    *)
(* and neither the engine nor the package has been blocked since.          *)
NoOrderWhileBlocked ==
  [][(\E c \in Clients : Placed(c)) =>
       /\ lastResult = "ok"
       /\ ~reconBlocked
       /\ submitting \in registered
       /\ ~pkgBlocked[submitting]]_vars

(* submit() returns "submitted" only when every leg of the package has     *)
(* been sent or is closed: none is left planned.                           *)
SubmitLeavesNoLegPlanned ==
  [][SubmitReturn =>
       \A l \in LegsOf(submitting) : legs[l].state # "planned"]_vars

(* While a leg of any package is in an uncertain state, no new order goes  *)
(* out for any package.                                                    *)
NoOrderWhileUncertain ==
  [][(\E c \in Clients : Placed(c)) =>
       \A l \in KnownLegs : legs[l].state # "unknown"]_vars

=============================================================================
