----------------------- MODULE LifecycleEngineProofs -----------------------
(***************************************************************************)
(* Theorems about LifecycleEngine, alone and beside the periodic check of  *)
(* LiveReconciliation, for all packages, legs, quantities, fault kinds and *)
(* bounds.  Sums over packages and positions are opened where a theorem is *)
(* about them, with the facts of Sums.                                     *)
(***************************************************************************)
EXTENDS LiveReconciliation, Sums, TLAPS

-----------------------------------------------------------------------------
(* THE LEG *)

(* Leg.apply returns a leg, whatever the event.                            *)
LEMMA ApplyType ==
  ASSUME NEW leg \in LegRecord, NEW quantity \in Nat,
         NEW event \in LifecycleEvents, NEW q \in Nat
  PROVE  Apply(leg, quantity, event, q) \in LegRecord
<1>1. CASE event = "fill"
  BY <1>1 DEF Apply, Accepts, Moved, LegRecord, LegStates
<1>2. CASE event # "fill"
  BY <1>2 DEF Apply, Accepts, Moved, LegRecord, LegStates, LifecycleEvents, Target
<1> QED BY <1>1, <1>2

(* Leg.apply keeps a leg's fill count and state consistent.                *)
LEMMA ApplyWellFormed ==
  ASSUME NEW leg \in LegRecord, NEW quantity \in Nat \ {0},
         NEW event \in LifecycleEvents, NEW q \in Nat,
         WellFormed(leg, quantity)
  PROVE  WellFormed(Apply(leg, quantity, event, q), quantity)
<1>1. CASE event = "fill"
  BY <1>1 DEF Apply, Accepts, Moved, LegRecord, LegStates, WellFormed
<1>2. CASE event # "fill"
  BY <1>2 DEF Apply, Accepts, Moved, LegRecord, LegStates, LifecycleEvents,
              Target, WellFormed
<1> QED BY <1>1, <1>2

(* Only a fill books contracts, and it books those of the report or none.  *)
LEMMA ApplyBooks ==
  ASSUME NEW leg \in LegRecord, NEW quantity \in Nat,
         NEW event \in LifecycleEvents, NEW q \in Nat
  PROVE  LET new == Apply(leg, quantity, event, q) IN
         /\ event # "fill" => new.filled = leg.filled
         /\ new.filled <= leg.filled + q
         /\ new.filled >= leg.filled
<1>1. CASE event = "fill"
  BY <1>1 DEF Apply, Accepts, Moved, LegRecord
<1>2. CASE event # "fill"
  BY <1>2 DEF Apply, Accepts, Moved, LegRecord, LifecycleEvents, Target
<1> QED BY <1>1, <1>2

(* An event other than the acknowledgement never makes a leg working, and  *)
(* no event makes a leg planned.                                           *)
LEMMA ApplyState ==
  ASSUME NEW leg \in LegRecord, NEW quantity \in Nat,
         NEW event \in LifecycleEvents, NEW q \in Nat
  PROVE  LET new == Apply(leg, quantity, event, q)
             working == {"submitted", "partially_filled", "filled"} IN
         /\ event # "submit_ack" /\ new.state \in working
              => leg.state \in working
         /\ new.state = "planned" => leg.state = "planned"
<1>1. CASE event = "fill"
  BY <1>1 DEF Apply, Accepts, Moved, LegRecord
<1>2. CASE event # "fill"
  BY <1>2 DEF Apply, Accepts, Moved, LegRecord, LifecycleEvents, Target
<1> QED BY <1>1, <1>2

-----------------------------------------------------------------------------
(* THE INDUCTIVE INVARIANT *)

(* What the broker's records keep true of themselves. *)
BrokerInv ==
  \A c \in Clients :
    /\ order[c].status = "none" => order[c].filled = 0
    /\ unreported[c] <= order[c].filled
    /\ c \in endReport => order[c].status \in DOMAIN EndEvent

(* The block is down only after a reconciliation that succeeded, and stays *)
(* down while a submit() is in its loop.                                   *)
BlockInv ==
  /\ ~reconBlocked => lastResult = "ok"
  /\ ~Idle => /\ submitting \in registered
              /\ ~reconBlocked
              /\ ~pkgBlocked[submitting]

IInv ==
  /\ TypeOK
  /\ BrokerInv
  /\ BlockInv
  /\ LegConsistent
  /\ LiveLegHasOrder
  /\ NeverOverbooked

(* The initial states satisfy the invariant: no leg, no order, no report.  *)
LEMMA InitIInv == Init => IInv
<1> SUFFICES ASSUME Init PROVE IInv
  OBVIOUS
<1> USE StaticAssumption, GreeksAssumption
<1>1. TypeOK
  BY DEF Init, TypeOK, NewLeg, LegRecord, LegStates, NoOrder, OrderStates, None
<1>2. BrokerInv
  BY DEF Init, BrokerInv, NoOrder
<1>3. BlockInv
  BY DEF Init, BlockInv, Idle
<1>4. LegConsistent
  BY DEF Init, LegConsistent, NewLeg, WellFormed
<1>5. LiveLegHasOrder
  BY DEF Init, LiveLegHasOrder, NewLeg
<1>6. NeverOverbooked
  BY DEF Init, NeverOverbooked, NewLeg, NoOrder
<1> QED BY <1>1, <1>2, <1>3, <1>4, <1>5, <1>6 DEF IInv

(* The leg a submit() loop has reached is a leg.                           *)
LEMMA AtLegType ==
  ASSUME TypeOK, NEW l, AtLeg(l)
  PROVE  l \in Legs /\ submitting \in Packages /\ next \in 1 .. Len(LegSeq[submitting])
BY StaticAssumption DEF TypeOK, AtLeg, Idle

(* A step that updates one leg by an event other than the acknowledgement, *)
(* and touches no order, keeps what is said of legs alone.                 *)
LEMMA UpdateKeeps ==
  ASSUME IInv, NEW l \in Legs, NEW event \in LifecycleEvents \ {"submit_ack"},
         NEW q \in Nat, Update(l, event, q),
         UNCHANGED <<submittedIds, order>>
  PROVE  /\ legs' \in [Legs -> LegRecord]
         /\ LegConsistent'
         /\ LiveLegHasOrder'
         /\ \A m \in Legs : m # l => legs'[m] = legs[m]
         /\ legs'[l].filled <= legs[l].filled + q
         /\ event # "fill" => legs'[l].filled = legs[l].filled
<1> DEFINE new == Apply(legs[l], Quantity[Client[l]], event, q)
<1>0. /\ legs[l] \in LegRecord
      /\ Quantity[Client[l]] \in Nat
      /\ Quantity[Client[l]] \in Nat \ {0}
      /\ event \in LifecycleEvents
      /\ WellFormed(legs[l], Quantity[Client[l]])
      /\ legs \in [Legs -> LegRecord]
  BY StaticAssumption DEF IInv, TypeOK, LegConsistent
<1>1. legs' = [legs EXCEPT ![l] = new]
  BY DEF Update
<1>2. /\ new \in LegRecord
      /\ new.filled <= legs[l].filled + q
      /\ event # "fill" => new.filled = legs[l].filled
  <2>1. new \in LegRecord
    BY <1>0, ApplyType
  <2>2. /\ new.filled <= legs[l].filled + q
        /\ event # "fill" => new.filled = legs[l].filled
    BY <1>0, ApplyBooks
  <2> QED BY <2>1, <2>2
<1>3. WellFormed(new, Quantity[Client[l]])
  BY <1>0, ApplyWellFormed
<1>4. new.state \in {"submitted", "partially_filled", "filled"} =>
        legs[l].state \in {"submitted", "partially_filled", "filled"}
  BY <1>0, ApplyState
<1> HIDE DEF new
<1>5. legs' \in [Legs -> LegRecord]
  BY <1>0, <1>1, <1>2
<1>6. legs'[l] = new /\ \A m \in Legs : m # l => legs'[m] = legs[m]
  BY <1>0, <1>1
<1>7. LegConsistent'
  BY <1>3, <1>6 DEF IInv, LegConsistent
<1>8. LiveLegHasOrder'
  BY <1>4, <1>6 DEF IInv, LiveLegHasOrder
<1> QED BY <1>2, <1>5, <1>6, <1>7, <1>8

-----------------------------------------------------------------------------
(* THE STEPS *)

(* Steps that change neither legs, orders nor reports keep the invariant.  *)
LEMMA QuietKeeps ==
  ASSUME IInv,
         UNCHANGED <<legs, submittedIds, order, unreported, endReport, repeats>>,
         TypeOK', BlockInv'
  PROVE  IInv'
BY DEF IInv, BrokerInv, LegConsistent, LiveLegHasOrder, NeverOverbooked

(* Steps that start or end engine calls keep the invariant. *)
LEMMA EngineStepKeeps ==
  ASSUME IInv,
         \/ \E p \in Packages, g \in Proposals : Register(p, g)
         \/ \E p \in Packages : SubmitBegin(p)
         \/ SubmitReturn
         \/ \E l \in Legs : SubmitSkip(l)
         \/ Reconcile
         \/ RecoverUnknown
  PROVE  IInv'
<1> USE StaticAssumption, GreeksAssumption, FaultAssumption
<1>1. ASSUME NEW p \in Packages, NEW g \in Proposals, Register(p, g)
      PROVE  IInv'
  <2>1. TypeOK'
    BY <1>1 DEF Register, IInv, TypeOK, brokerVars
  <2>2. BlockInv'
    BY <1>1 DEF Register, IInv, BlockInv, Idle
  <2> QED BY <1>1, <2>1, <2>2, QuietKeeps DEF Register, brokerVars
<1>2. ASSUME NEW p \in Packages, SubmitBegin(p)
      PROVE  IInv'
  <2>1. TypeOK'
    BY <1>2 DEF SubmitBegin, IInv, TypeOK, brokerVars
  <2>2. BlockInv'
    BY <1>2 DEF SubmitBegin, IInv, BlockInv, Idle
  <2> QED BY <1>2, <2>1, <2>2, QuietKeeps DEF SubmitBegin, brokerVars
<1>3. CASE SubmitReturn
  <2>1. TypeOK'
    BY <1>3 DEF SubmitReturn, Abandon, IInv, TypeOK, brokerVars
  <2>2. BlockInv'
    BY <1>3 DEF SubmitReturn, Abandon, IInv, BlockInv, Idle
  <2> QED BY <1>3, <2>1, <2>2, QuietKeeps DEF SubmitReturn, brokerVars
<1>4. ASSUME NEW l \in Legs, SubmitSkip(l)
      PROVE  IInv'
  <2>1. TypeOK'
    BY <1>4 DEF SubmitSkip, IInv, TypeOK, brokerVars
  <2>2. BlockInv'
    BY <1>4 DEF SubmitSkip, IInv, BlockInv, Idle
  <2> QED BY <1>4, <2>1, <2>2, QuietKeeps DEF SubmitSkip, brokerVars
<1>5. CASE Reconcile
  <2>1. TypeOK'
    BY <1>5 DEF Reconcile, IInv, TypeOK, brokerVars
  <2>2. BlockInv'
    BY <1>5 DEF Reconcile, IInv, BlockInv, Idle
  <2> QED BY <1>5, <2>1, <2>2, QuietKeeps DEF Reconcile, brokerVars
<1>6. CASE RecoverUnknown
  <2>1. TypeOK'
    BY <1>6 DEF RecoverUnknown, Fault, IInv, TypeOK, brokerVars
  <2>2. BlockInv'
    BY <1>6 DEF RecoverUnknown, IInv, BlockInv, Idle
  <2> QED BY <1>6, <2>1, <2>2, QuietKeeps DEF RecoverUnknown, brokerVars
<1> QED BY <1>1, <1>2, <1>3, <1>4, <1>5, <1>6

(* Placing an order keeps what is said of the broker: the id was free.     *)
LEMMA PlaceKeeps ==
  ASSUME IInv, NEW c \in Clients, order[c].status = "none", Place(c),
         UNCHANGED <<unreported, endReport>>
  PROVE  /\ order' \in [Clients -> [status : OrderStates, filled : Nat]]
         /\ BrokerInv'
         /\ \A d \in Clients : order'[d].filled = order[d].filled
         /\ order'[c].status # "none"
         /\ \A d \in Clients : order[d].status # "none" => order'[d].status # "none"
BY DEF IInv, TypeOK, BrokerInv, Place, OrderStates, EndEvent

(* An acknowledged submission keeps the invariant. *)
LEMMA AckedKeeps ==
  ASSUME IInv, NEW l \in Legs, SubmitAcked(l)
  PROVE  IInv'
<1> USE StaticAssumption, GreeksAssumption, FaultAssumption
<1> DEFINE c == Client[l]
           new == Apply(legs[l], Quantity[c], "submit_ack", 0)
<1>1. c \in Clients /\ Quantity[c] \in Nat \ {0} /\ legs \in [Legs -> LegRecord]
  BY DEF IInv, TypeOK
<1>2. /\ order' \in [Clients -> [status : OrderStates, filled : Nat]]
      /\ BrokerInv'
      /\ \A d \in Clients : order'[d].filled = order[d].filled
      /\ order'[c].status # "none"
      /\ \A d \in Clients : order[d].status # "none" => order'[d].status # "none"
  BY <1>1, PlaceKeeps DEF SubmitAcked
<1>3. /\ new \in LegRecord
      /\ new.filled = legs[l].filled
      /\ WellFormed(new, Quantity[c])
  <2>1. "submit_ack" \in LifecycleEvents /\ "submit_ack" # "fill" /\ 0 \in Nat
    BY DEF LifecycleEvents
  <2>2. legs[l] \in LegRecord /\ Quantity[c] \in Nat /\ WellFormed(legs[l], Quantity[c])
    BY <1>1 DEF IInv, LegConsistent
  <2>3. new \in LegRecord
    BY <2>1, <2>2, ApplyType
  <2>4. new.filled = legs[l].filled
    BY <2>1, <2>2, ApplyBooks
  <2>5. WellFormed(new, Quantity[c])
    BY <1>1, <2>1, <2>2, ApplyWellFormed
  <2> QED BY <2>3, <2>4, <2>5
<1>4. legs' = [legs EXCEPT ![l] = new] /\ submittedIds' = submittedIds \cup {c}
  BY DEF SubmitAcked
<1> HIDE DEF new
<1>5. TypeOK'
  <2>1. legs' \in [Legs -> LegRecord]
    BY <1>1, <1>3, <1>4
  <2>2. submitting' \in Packages \cup {None} /\ next' \in Nat
    BY DEF SubmitAcked, Abandon, IInv, TypeOK
  <2> QED BY <1>1, <1>2, <1>4, <2>1, <2>2 DEF SubmitAcked, IInv, TypeOK
<1>6. BlockInv'
  BY DEF SubmitAcked, Abandon, IInv, BlockInv, Idle
<1>7. LegConsistent'
  BY <1>1, <1>3, <1>4 DEF IInv, LegConsistent
<1>8. LiveLegHasOrder'
  BY <1>1, <1>2, <1>4 DEF IInv, LiveLegHasOrder
<1>9. NeverOverbooked'
  <2>1. \A m \in Legs : legs'[m].filled = legs[m].filled
    BY <1>1, <1>3, <1>4
  <2>2. unreported' = unreported /\ repeats' = repeats
    BY DEF SubmitAcked
  <2> QED BY <1>2, <2>1, <2>2 DEF IInv, NeverOverbooked
<1> QED BY <1>2, <1>5, <1>6, <1>7, <1>8, <1>9 DEF IInv

(* A submission that raises keeps the invariant, whether or not the order  *)
(* was placed.                                                             *)
LEMMA RaisedKeeps ==
  ASSUME IInv, NEW l \in Legs, SubmitRaised(l)
  PROVE  IInv'
<1> USE StaticAssumption, GreeksAssumption, FaultAssumption
<1>1. /\ order' \in [Clients -> [status : OrderStates, filled : Nat]]
      /\ BrokerInv'
      /\ \A d \in Clients : order'[d].filled = order[d].filled
      /\ \A d \in Clients : order[d].status # "none" => order'[d].status # "none"
  <2>1. CASE UNCHANGED order
    BY <2>1 DEF SubmitRaised, IInv, TypeOK, BrokerInv
  <2>2. CASE order[Client[l]].status = "none" /\ Place(Client[l])
    BY <2>2, PlaceKeeps DEF SubmitRaised
  <2> QED BY <2>1, <2>2 DEF SubmitRaised
<1>2. faults' \in Nat
  BY DEF SubmitRaised, Fault, IInv, TypeOK
<1>3. TypeOK'
  BY <1>1, <1>2 DEF SubmitRaised, Abandon, IInv, TypeOK
<1>4. BlockInv'
  BY DEF SubmitRaised, Abandon, IInv, BlockInv, Idle
<1>5. LegConsistent' /\ LiveLegHasOrder' /\ NeverOverbooked'
  BY <1>1 DEF SubmitRaised, IInv, LegConsistent, LiveLegHasOrder, NeverOverbooked
<1> QED BY <1>1, <1>3, <1>4, <1>5 DEF IInv

(* A delivered fill moves contracts from the reports to a leg, or drops    *)
(* them.                                                                   *)
LEMMA DeliverFillKeeps ==
  ASSUME IInv, NEW l \in Legs, NEW q \in 1 .. unreported[Client[l]],
         DeliverFill(l, q)
  PROVE  IInv'
<1> USE StaticAssumption, GreeksAssumption, FaultAssumption
<1>0. q \in Nat /\ Client[l] \in Clients /\ unreported \in [Clients -> Nat]
  BY DEF IInv, TypeOK
<1>1. /\ legs' \in [Legs -> LegRecord]
      /\ LegConsistent'
      /\ LiveLegHasOrder'
      /\ \A m \in Legs : m # l => legs'[m] = legs[m]
      /\ legs'[l].filled <= legs[l].filled + q
  BY <1>0, UpdateKeeps DEF DeliverFill, LifecycleEvents
<1>2. /\ unreported' = [unreported EXCEPT ![Client[l]] = @ - q]
      /\ UNCHANGED <<order, endReport, repeats>>
  BY DEF DeliverFill
<1>3. /\ unreported' \in [Clients -> Nat]
      /\ unreported'[Client[l]] = unreported[Client[l]] - q
      /\ \A d \in Clients : unreported'[d] <= unreported[d]
  BY <1>0, <1>2
<1>4. TypeOK'
  BY <1>1, <1>3 DEF DeliverFill, IInv, TypeOK
<1>5. BlockInv'
  BY DEF DeliverFill, IInv, BlockInv, Idle
<1>6. BrokerInv'
  <2>1. \A d \in Clients : order[d].filled \in Nat
    BY DEF IInv, TypeOK
  <2> QED BY <1>0, <1>2, <1>3, <2>1 DEF IInv, BrokerInv
<1>7. NeverOverbooked'
  <2> SUFFICES ASSUME NEW m \in Legs
               PROVE  legs'[m].filled + unreported'[Client[m]]
                        <= order[Client[m]].filled + repeats[Client[m]]
    BY <1>2 DEF NeverOverbooked
  <2>1. /\ legs[m].filled \in Nat /\ legs'[m].filled \in Nat
        /\ Client[m] \in Clients
        /\ order[Client[m]].filled \in Nat
        /\ unreported[Client[m]] \in Nat
        /\ repeats[Client[m]] \in Nat
    BY <1>1 DEF IInv, TypeOK, LegRecord
  <2>2. legs[m].filled + unreported[Client[m]] <= order[Client[m]].filled + repeats[Client[m]]
    BY DEF IInv, NeverOverbooked
  <2>3. unreported'[Client[m]] \in Nat
    BY <1>3, <2>1
  <2>4. CASE m = l
    <3>1. /\ legs'[m].filled <= legs[m].filled + q
          /\ unreported'[Client[m]] = unreported[Client[m]] - q
      BY <1>1, <1>3, <2>4
    <3> QED BY ONLY <1>0, <2>1, <2>2, <2>3, <3>1
  <2>5. CASE m # l
    <3>1. /\ legs'[m].filled = legs[m].filled
          /\ unreported'[Client[m]] <= unreported[Client[m]]
      BY <1>1, <1>3, <2>1, <2>5
    <3> QED BY ONLY <1>0, <2>1, <2>2, <2>3, <3>1
  <2> QED BY <2>4, <2>5
<1> QED BY <1>1, <1>4, <1>5, <1>6, <1>7 DEF IInv

(* A repeated fill books at most what the history counts as repeated.      *)
LEMMA RepeatFillKeeps ==
  ASSUME IInv, NEW l \in Legs, NEW q \in 1 .. Quantity[Client[l]],
         RepeatFill(l, q)
  PROVE  IInv'
<1> USE StaticAssumption, GreeksAssumption, FaultAssumption
<1>0. q \in Nat /\ Client[l] \in Clients /\ repeats \in [Clients -> Nat]
  BY DEF IInv, TypeOK
<1>1. /\ legs' \in [Legs -> LegRecord]
      /\ LegConsistent'
      /\ LiveLegHasOrder'
      /\ \A m \in Legs : m # l => legs'[m] = legs[m]
      /\ legs'[l].filled <= legs[l].filled + q
  BY <1>0, UpdateKeeps DEF RepeatFill, LifecycleEvents, brokerVars
<1>2. /\ repeats' = [repeats EXCEPT ![Client[l]] = @ + q]
      /\ UNCHANGED <<order, unreported, endReport>>
  BY DEF RepeatFill, brokerVars
<1>3. /\ repeats' \in [Clients -> Nat]
      /\ repeats'[Client[l]] = repeats[Client[l]] + q
      /\ \A d \in Clients : repeats'[d] >= repeats[d]
  BY <1>0, <1>2
<1>4. TypeOK'
  BY <1>1, <1>3 DEF RepeatFill, Fault, IInv, TypeOK, brokerVars
<1>5. BlockInv'
  BY DEF RepeatFill, IInv, BlockInv, Idle
<1>6. BrokerInv'
  BY <1>2 DEF IInv, BrokerInv
<1>7. NeverOverbooked'
  <2> SUFFICES ASSUME NEW m \in Legs
               PROVE  legs'[m].filled + unreported[Client[m]]
                        <= order[Client[m]].filled + repeats'[Client[m]]
    BY <1>2 DEF NeverOverbooked
  <2>1. /\ legs[m].filled \in Nat /\ legs'[m].filled \in Nat
        /\ Client[m] \in Clients
        /\ order[Client[m]].filled \in Nat
        /\ unreported[Client[m]] \in Nat
        /\ repeats[Client[m]] \in Nat
    BY <1>1 DEF IInv, TypeOK, LegRecord
  <2>2. legs[m].filled + unreported[Client[m]] <= order[Client[m]].filled + repeats[Client[m]]
    BY DEF IInv, NeverOverbooked
  <2>3. repeats'[Client[m]] \in Nat
    BY <1>3, <2>1
  <2>4. CASE m = l
    <3>1. /\ legs'[m].filled <= legs[m].filled + q
          /\ repeats'[Client[m]] = repeats[Client[m]] + q
      BY <1>1, <1>3, <2>4
    <3> QED BY ONLY <1>0, <2>1, <2>2, <2>3, <3>1
  <2>5. CASE m # l
    <3>1. /\ legs'[m].filled = legs[m].filled
          /\ repeats'[Client[m]] >= repeats[Client[m]]
      BY <1>1, <1>3, <2>1, <2>5
    <3> QED BY ONLY <1>0, <2>1, <2>2, <2>3, <3>1
  <2> QED BY <2>4, <2>5
<1> QED BY <1>1, <1>4, <1>5, <1>6, <1>7 DEF IInv

(* The other events move a leg and book nothing.                           *)
LEMMA OtherEventKeeps ==
  ASSUME IInv, NEW l \in Legs,
         NEW event \in LifecycleEvents \ {"submit_ack", "fill"},
         Update(l, event, 0),
         UNCHANGED <<submittedIds, order, unreported, repeats>>,
         TypeOK', BlockInv', BrokerInv'
  PROVE  IInv'
<1> USE StaticAssumption
<1>1. /\ legs' \in [Legs -> LegRecord]
      /\ LegConsistent'
      /\ LiveLegHasOrder'
      /\ \A m \in Legs : m # l => legs'[m] = legs[m]
      /\ legs'[l].filled = legs[l].filled
  BY UpdateKeeps
<1>2. NeverOverbooked'
  BY <1>1 DEF IInv, NeverOverbooked
<1> QED BY <1>1, <1>2 DEF IInv

(* ... and leave a leg of the right type. *)
LEMMA UpdateType ==
  ASSUME IInv, NEW l \in Legs,
         NEW event \in LifecycleEvents, Update(l, event, 0)
  PROVE  legs' \in [Legs -> LegRecord]
<1>1. /\ legs \in [Legs -> LegRecord]
      /\ Quantity[Client[l]] \in Nat
  BY StaticAssumption DEF IInv, TypeOK
<1>2. Apply(legs[l], Quantity[Client[l]], event, 0) \in LegRecord
  BY <1>1, ApplyType
<1> QED BY <1>1, <1>2 DEF Update

(* The report of an order's end closes a leg and books nothing.            *)
LEMMA DeliverEndKeeps ==
  ASSUME IInv, NEW l \in Legs, DeliverEnd(l)
  PROVE  IInv'
<1> USE StaticAssumption, GreeksAssumption, FaultAssumption
<1> DEFINE event == EndEvent[order[Client[l]].status]
<1>1. event \in LifecycleEvents \ {"submit_ack", "fill"}
  BY DEF DeliverEnd, IInv, BrokerInv, EndEvent, LifecycleEvents
<1>2. Update(l, event, 0)
  BY DEF DeliverEnd
<1> HIDE DEF event
<1>3. legs' \in [Legs -> LegRecord]
  BY <1>1, <1>2, UpdateType
<1>4. faults' \in Nat
  BY DEF DeliverEnd, Fault, IInv, TypeOK
<1>5. TypeOK'
  BY <1>3, <1>4 DEF DeliverEnd, IInv, TypeOK
<1>6. BlockInv'
  BY DEF DeliverEnd, IInv, BlockInv, Idle
<1>7. BrokerInv'
  BY DEF DeliverEnd, IInv, BrokerInv
<1> QED BY <1>1, <1>2, <1>5, <1>6, <1>7, OtherEventKeeps DEF DeliverEnd

(* A caller that marks a leg uncertain or expired books nothing.           *)
LEMMA CallerMarkKeeps ==
  ASSUME IInv, NEW l \in Legs, MarkUncertain(l) \/ ExpireUnsent(l)
  PROVE  IInv'
<1> USE StaticAssumption, GreeksAssumption, FaultAssumption
<1>1. PICK event \in LifecycleEvents \ {"submit_ack", "fill"} : Update(l, event, 0)
  BY DEF MarkUncertain, ExpireUnsent, LifecycleEvents
<1>2. legs' \in [Legs -> LegRecord]
  BY <1>1, UpdateType
<1>3. TypeOK'
  BY <1>2 DEF MarkUncertain, ExpireUnsent, Fault, IInv, TypeOK, brokerVars
<1>4. BlockInv'
  BY DEF MarkUncertain, ExpireUnsent, IInv, BlockInv, Idle
<1>5. BrokerInv'
  BY DEF MarkUncertain, ExpireUnsent, IInv, BrokerInv, brokerVars
<1>6. UNCHANGED <<submittedIds, order, unreported, repeats>>
  BY DEF MarkUncertain, ExpireUnsent, brokerVars
<1> QED BY <1>1, <1>3, <1>4, <1>5, <1>6, OtherEventKeeps

(* A lost report only takes contracts out of the reports. *)
LEMMA LoseReportKeeps ==
  ASSUME IInv, NEW c \in Clients, LoseReport(c)
  PROVE  IInv'
<1> USE StaticAssumption, GreeksAssumption, FaultAssumption
<1>1. /\ unreported' \in [Clients -> Nat]
      /\ \A d \in Clients : unreported'[d] <= unreported[d]
      /\ endReport' \subseteq endReport
  <2>1. unreported \in [Clients -> Nat]
    BY DEF IInv, TypeOK
  <2>2. CASE \E q \in 1 .. unreported[c] :
               /\ unreported' = [unreported EXCEPT ![c] = @ - q]
               /\ UNCHANGED endReport
    <3>1. PICK q \in 1 .. unreported[c] :
             /\ unreported' = [unreported EXCEPT ![c] = @ - q]
             /\ UNCHANGED endReport
      BY <2>2
    <3>2. unreported[c] \in Nat /\ unreported[c] - q \in Nat
      BY <2>1
    <3> QED BY <2>1, <3>1, <3>2
  <2>3. CASE endReport' = endReport \ {c} /\ UNCHANGED unreported
    BY <2>1, <2>3
  <2> QED BY <2>2, <2>3 DEF LoseReport
<1>2. UNCHANGED <<engineVars, order, repeats>> /\ faults' \in Nat
  BY DEF LoseReport, Fault, IInv, TypeOK
<1>3. TypeOK'
  BY <1>1, <1>2 DEF IInv, TypeOK, engineVars
<1>4. BlockInv'
  BY <1>2 DEF IInv, BlockInv, Idle, engineVars
<1>5. BrokerInv'
  <2> SUFFICES ASSUME NEW d \in Clients
               PROVE  /\ order[d].status = "none" => order[d].filled = 0
                      /\ unreported'[d] <= order[d].filled
                      /\ d \in endReport' => order[d].status \in DOMAIN EndEvent
    BY <1>2 DEF BrokerInv
  <2>1. order[d].filled \in Nat /\ unreported[d] \in Nat /\ unreported'[d] \in Nat
    BY <1>1 DEF IInv, TypeOK
  <2>2. /\ order[d].status = "none" => order[d].filled = 0
        /\ unreported[d] <= order[d].filled
        /\ d \in endReport => order[d].status \in DOMAIN EndEvent
    BY DEF IInv, BrokerInv
  <2>3. unreported'[d] <= unreported[d]
    BY <1>1
  <2>4. unreported'[d] <= order[d].filled
    BY ONLY <2>1, <2>2, <2>3
  <2> QED BY <1>1, <2>2, <2>4
<1>6. LegConsistent' /\ LiveLegHasOrder'
  BY <1>2 DEF IInv, LegConsistent, LiveLegHasOrder, engineVars
<1>7. NeverOverbooked'
  <2> SUFFICES ASSUME NEW m \in Legs
               PROVE  legs[m].filled + unreported'[Client[m]]
                        <= order[Client[m]].filled + repeats[Client[m]]
    BY <1>2 DEF NeverOverbooked, engineVars
  <2>1. /\ legs[m].filled \in Nat
        /\ Client[m] \in Clients
        /\ order[Client[m]].filled \in Nat
        /\ unreported[Client[m]] \in Nat /\ unreported'[Client[m]] \in Nat
        /\ repeats[Client[m]] \in Nat
    BY <1>1 DEF IInv, TypeOK, LegRecord
  <2>2. legs[m].filled + unreported[Client[m]]
          <= order[Client[m]].filled + repeats[Client[m]]
    BY DEF IInv, NeverOverbooked
  <2>3. unreported'[Client[m]] <= unreported[Client[m]]
    BY <1>1, <2>1
  <2> QED BY ONLY <2>1, <2>2, <2>3
<1> QED BY <1>3, <1>4, <1>5, <1>6, <1>7 DEF IInv

(* A fill at the broker adds as much to the reports as to the order.       *)
LEMMA BrokerFillKeeps ==
  ASSUME IInv, NEW c \in Clients, NEW q \in 1 .. Quantity[c], BrokerFill(c, q)
  PROVE  IInv'
<1> USE StaticAssumption, GreeksAssumption, FaultAssumption
<1>0. /\ q \in Nat
      /\ order \in [Clients -> [status : OrderStates, filled : Nat]]
      /\ unreported \in [Clients -> Nat]
  BY DEF IInv, TypeOK
<1>1. /\ order' \in [Clients -> [status : OrderStates, filled : Nat]]
      /\ \A d \in Clients : d # c => order'[d] = order[d]
      /\ order'[c].filled = order[c].filled + q
      /\ order'[c].status \in {"live", "filled"}
      /\ order[c].status = "live"
  BY <1>0 DEF BrokerFill, OrderStates
<1>2. /\ unreported' \in [Clients -> Nat]
      /\ \A d \in Clients : d # c => unreported'[d] = unreported[d]
      /\ unreported'[c] = unreported[c] + q
  BY <1>0 DEF BrokerFill
<1>3. UNCHANGED <<engineVars, endReport, faults, repeats>>
  BY DEF BrokerFill
<1>4. TypeOK'
  BY <1>1, <1>2, <1>3 DEF IInv, TypeOK, engineVars
<1>5. BlockInv'
  BY <1>3 DEF IInv, BlockInv, Idle, engineVars
<1>6. BrokerInv'
  <2> SUFFICES ASSUME NEW d \in Clients
               PROVE  /\ order'[d].status = "none" => order'[d].filled = 0
                      /\ unreported'[d] <= order'[d].filled
                      /\ d \in endReport => order'[d].status \in DOMAIN EndEvent
    BY <1>3 DEF BrokerInv
  <2>1. /\ order[d].status = "none" => order[d].filled = 0
        /\ unreported[d] <= order[d].filled
        /\ d \in endReport => order[d].status \in DOMAIN EndEvent
    BY DEF IInv, BrokerInv
  <2>2. CASE d # c
    BY <1>1, <1>2, <2>1, <2>2
  <2>3. CASE d = c
    <3>1. order[c].filled \in Nat /\ unreported[c] \in Nat
      BY <1>0
    <3>2. /\ order'[c].filled = order[c].filled + q
          /\ unreported'[c] = unreported[c] + q
          /\ unreported[c] <= order[c].filled
      BY <1>1, <1>2, <2>1, <2>3
    <3>3. unreported'[c] <= order'[c].filled
      BY ONLY <1>0, <3>1, <3>2
    <3>4. order'[c].status # "none" /\ c \notin endReport
      BY <1>1, <2>1, <2>3 DEF EndEvent
    <3> QED BY <2>3, <3>3, <3>4
  <2> QED BY <2>2, <2>3
<1>7. LegConsistent' /\ LiveLegHasOrder'
  BY <1>1, <1>3 DEF IInv, LegConsistent, LiveLegHasOrder, engineVars
<1>8. NeverOverbooked'
  <2> SUFFICES ASSUME NEW m \in Legs
               PROVE  legs[m].filled + unreported'[Client[m]]
                        <= order'[Client[m]].filled + repeats[Client[m]]
    BY <1>3 DEF NeverOverbooked, engineVars
  <2>1. /\ legs[m].filled \in Nat
        /\ Client[m] \in Clients
        /\ order[Client[m]].filled \in Nat
        /\ unreported[Client[m]] \in Nat
        /\ repeats[Client[m]] \in Nat
    BY DEF IInv, TypeOK, LegRecord
  <2>2. legs[m].filled + unreported[Client[m]]
          <= order[Client[m]].filled + repeats[Client[m]]
    BY DEF IInv, NeverOverbooked
  <2>3. CASE Client[m] = c
    <3>1. /\ unreported'[Client[m]] = unreported[Client[m]] + q
          /\ order'[Client[m]].filled = order[Client[m]].filled + q
      BY <1>1, <1>2, <2>3
    <3> QED BY ONLY <1>0, <2>1, <2>2, <3>1
  <2>4. CASE Client[m] # c
    BY <1>1, <1>2, <2>1, <2>2, <2>4
  <2> QED BY <2>3, <2>4
<1> QED BY <1>4, <1>5, <1>6, <1>7, <1>8 DEF IInv

(* The broker ends an order: its fills, and that there is one, stay.       *)
LEMMA BrokerEndKeeps ==
  ASSUME IInv, NEW c \in Clients,
         NEW s \in {"cancelled", "rejected", "expired"}, BrokerEnd(c, s)
  PROVE  IInv'
<1> USE StaticAssumption, GreeksAssumption, FaultAssumption
<1>0. order \in [Clients -> [status : OrderStates, filled : Nat]]
  BY DEF IInv, TypeOK
<1>1. /\ order' \in [Clients -> [status : OrderStates, filled : Nat]]
      /\ \A d \in Clients : order'[d].filled = order[d].filled
      /\ \A d \in Clients : d # c => order'[d] = order[d]
      /\ order'[c].status = s
      /\ order[c].status = "live"
  BY <1>0 DEF BrokerEnd, OrderStates
<1>2. UNCHANGED <<engineVars, unreported, faults, repeats>>
  BY DEF BrokerEnd
<1>3. TypeOK'
  BY <1>1, <1>2 DEF BrokerEnd, IInv, TypeOK, engineVars
<1>4. BlockInv'
  BY <1>2 DEF IInv, BlockInv, Idle, engineVars
<1>5. BrokerInv'
  BY <1>1, <1>2 DEF BrokerEnd, IInv, BrokerInv, EndEvent
<1>6. LegConsistent' /\ LiveLegHasOrder' /\ NeverOverbooked'
  BY <1>1, <1>2 DEF IInv, LegConsistent, LiveLegHasOrder, NeverOverbooked,
                    engineVars
<1> QED BY <1>3, <1>4, <1>5, <1>6 DEF IInv

(* A restart forgets everything the engine knew and nothing of the broker. *)
LEMMA RestartKeeps == IInv /\ Restart => IInv'
<1> SUFFICES ASSUME IInv, Restart PROVE IInv'
  OBVIOUS
<1> USE StaticAssumption, GreeksAssumption, FaultAssumption
<1>1. TypeOK'
  BY DEF Restart, Abandon, Fault, IInv, TypeOK, NewLeg, LegRecord, LegStates,
         brokerVars
<1>2. BlockInv'
  BY DEF Restart, Abandon, BlockInv, Idle
<1>3. BrokerInv'
  BY DEF Restart, IInv, BrokerInv, brokerVars
<1>4. LegConsistent' /\ LiveLegHasOrder'
  BY DEF Restart, LegConsistent, LiveLegHasOrder, NewLeg, WellFormed
<1>5. NeverOverbooked'
  <2>1. \A c \in Clients : unreported[c] \in Nat /\ order[c].filled \in Nat
    BY DEF IInv, TypeOK
  <2> QED BY <2>1 DEF Restart, IInv, BrokerInv, NeverOverbooked, NewLeg, brokerVars
<1> QED BY <1>1, <1>2, <1>3, <1>4, <1>5 DEF IInv

(* Every step of the engine, its callers and the broker keeps the invariant.*)
LEMMA NextIInv == IInv /\ [Next]_vars => IInv'
<1> SUFFICES ASSUME IInv, [Next]_vars PROVE IInv'
  OBVIOUS
<1>1. CASE \/ \E p \in Packages, g \in Proposals : Register(p, g)
           \/ \E p \in Packages : SubmitBegin(p)
           \/ Reconcile
           \/ RecoverUnknown
  BY <1>1, EngineStepKeeps
<1>2. CASE SubmitStep
  BY <1>2, EngineStepKeeps, AckedKeeps, RaisedKeeps DEF SubmitStep
<1>3. CASE Restart
  BY <1>3, RestartKeeps
<1>4. CASE \E l \in Legs : DeliverStep(l) \/ CallerStep(l)
  BY <1>4, DeliverEndKeeps, DeliverFillKeeps, CallerMarkKeeps, RepeatFillKeeps
     DEF DeliverStep, CallerStep
<1>5. CASE \E c \in Clients : BrokerStep(c) \/ LoseReport(c)
  BY <1>5, BrokerFillKeeps, BrokerEndKeeps, LoseReportKeeps DEF BrokerStep
<1>6. CASE UNCHANGED vars
  BY <1>6 DEF vars, engineVars, brokerVars, IInv, TypeOK, BrokerInv, BlockInv,
              Idle, LegConsistent, LiveLegHasOrder, NeverOverbooked
<1> QED BY <1>1, <1>2, <1>3, <1>4, <1>5, <1>6 DEF Next

-----------------------------------------------------------------------------
(* THEOREMS *)

(* Everything the induction rests on, for every reachable state.           *)
THEOREM Invariance == Spec => []IInv
BY InitIInv, NextIInv, PTL DEF Spec

(* Every variable keeps its type. *)
THEOREM TypeCorrectness == Spec => []TypeOK
BY Invariance, PTL DEF IInv

(* No leg is filled beyond its quantity, and its state says how far it is  *)
(* filled, whatever reports are lost, reordered or repeated.               *)
THEOREM LegConsistency == Spec => []LegConsistent
BY Invariance, PTL DEF IInv

(* A leg that is submitted, partially filled or filled has an order at the *)
(* broker and its id is recorded.                                          *)
THEOREM LiveLegs == Spec => []LiveLegHasOrder
BY Invariance, PTL DEF IInv

(* The engine books no contract the broker did not execute.                *)
THEOREM Booking == Spec => []NeverOverbooked
BY Invariance, PTL DEF IInv

(* Only the loop of submit() places orders. *)
LEMMA OnlySubmitPlaces ==
  ASSUME IInv, [Next]_vars, NEW c \in Clients, Placed(c)
  PROVE  ~Idle
<1>1. ASSUME NEW d \in Clients, NEW s \in {"cancelled", "rejected", "expired"},
             BrokerEnd(d, s)
      PROVE  FALSE
  BY <1>1 DEF BrokerEnd, Placed, IInv, TypeOK
<1>2. ASSUME NEW d \in Clients, NEW q \in 1 .. Quantity[d], BrokerFill(d, q)
      PROVE  FALSE
  BY <1>2 DEF BrokerFill, Placed, IInv, TypeOK
<1>3. order' # order
  BY DEF Placed
<1>4. SubmitStep \/ \E d \in Clients : BrokerStep(d)
  BY <1>3 DEF Next, Register, SubmitBegin, Reconcile, RecoverUnknown, Restart,
      DeliverStep, DeliverFill, DeliverEnd, CallerStep, MarkUncertain,
      ExpireUnsent, RepeatFill, LoseReport, vars, brokerVars
<1>5. SubmitStep
  BY <1>1, <1>2, <1>4 DEF BrokerStep
<1> QED
  BY <1>5 DEF SubmitStep, SubmitReturn, SubmitSkip, SubmitAcked, SubmitRaised,
      Calling, AtLeg

(* No order reaches the broker unless the last reconciliation succeeded    *)
(* and neither the engine nor the package has been blocked since.          *)
THEOREM BlockHolds == Spec => NoOrderWhileBlocked
<1>1. IInv /\ [Next]_vars =>
        [(\E c \in Clients : Placed(c)) =>
           /\ lastResult = "ok"
           /\ ~reconBlocked
           /\ submitting \in registered
           /\ ~pkgBlocked[submitting]]_vars
  BY OnlySubmitPlaces DEF IInv, BlockInv
<1> QED BY <1>1, Invariance, PTL DEF Spec, NoOrderWhileBlocked

-----------------------------------------------------------------------------
(* THE GREEKS ON THE BOOKS, when packages come without holdings            *)

NothingHeld == \A p \in Packages, d \in Dims : Held[p][d] = 0

Booked(d) == SumFunction([p \in registered |-> greeks[p][d]])

LEMMA BookedType ==
  ASSUME TypeOK, NEW d \in Dims
  PROVE  /\ IsFiniteSet(registered)
         /\ [p \in registered |-> greeks[p][d]] \in [registered -> Int]
         /\ Booked(d) \in Int
<1>1. IsFiniteSet(registered)
  BY StaticAssumption, FS_Subset DEF TypeOK
<1>2. [p \in registered |-> greeks[p][d]] \in [registered -> Int]
  BY DEF TypeOK
<1>3. SumFunctionOnSet([p \in registered |-> greeks[p][d]], registered) \in Int
  BY <1>1, <1>2, SumType
<1> QED BY <1>1, <1>2, <1>3 DEF Booked, SumFunction

(* A registration adds the greeks that were proposed. *)
LEMMA RegisterBooks ==
  ASSUME TypeOK, NEW p \in Packages, NEW g \in Proposals, Register(p, g),
         NEW d \in Dims
  PROVE  Booked(d)' = g[d] + Booked(d)
<1> DEFINE f == [q \in registered |-> greeks[q][d]]
           h == [q \in registered \cup {p} |-> greeks'[q][d]]
<1>1. IsFiniteSet(registered)
  BY BookedType
<1>2. /\ registered' = registered \cup {p} /\ p \notin registered
      /\ greeks' = [greeks EXCEPT ![p] = g]
  BY DEF Register
<1>3. greeks \in [Packages -> [Dims -> Int]] /\ g \in [Dims -> Int]
      /\ registered \subseteq Packages
  BY GreeksAssumption DEF TypeOK
<1>4. h \in [registered \cup {p} -> Int] /\ h[p] = g[d]
  BY <1>2, <1>3
<1>5. \A q \in registered : h[q] = f[q]
  BY <1>2, <1>3
<1>6. Booked(d)' = SumFunctionOnSet(h, registered \cup {p})
  BY <1>2 DEF Booked, SumFunction
<1>7. Booked(d) = SumFunctionOnSet(f, registered)
  BY DEF Booked, SumFunction
<1> HIDE DEF f, h
<1>8. SumFunctionOnSet(h, registered \cup {p}) = h[p] + SumFunctionOnSet(h, registered)
  BY <1>1, <1>2, <1>4, SumAdd
<1>9. SumFunctionOnSet(h, registered) = SumFunctionOnSet(f, registered)
  BY <1>1, <1>5, SumSame
<1> QED BY <1>4, <1>6, <1>7, <1>8, <1>9

LEMMA BookedIs ==
  BookedGreeksInLimit <=> \A d \in Dims : Magnitude(Booked(d)) <= Limit[d]
BY GreeksAssumption DEF BookedGreeksInLimit, Approved, Booked

(* The approval of a registration covers what is then on the books. *)
LEMMA RegisterInLimit ==
  ASSUME NothingHeld, TypeOK, NEW p \in Packages, NEW g \in Proposals,
         Register(p, g)
  PROVE  BookedGreeksInLimit'
<1> SUFFICES ASSUME NEW d \in Dims PROVE Magnitude(Booked(d)') <= Limit[d]
  BY GreeksAssumption DEF BookedGreeksInLimit, Approved, Booked
<1>1. Magnitude(Booked(d) + Held[p][d] + g[d]) <= Limit[d]
  BY GreeksAssumption DEF Register, Approved, PortfolioWith, Booked
<1>2. Held[p][d] = 0 /\ g[d] \in Int /\ Booked(d) \in Int
  BY GreeksAssumption, BookedType DEF NothingHeld
<1>3. Booked(d) + Held[p][d] + g[d] = g[d] + Booked(d)
  BY <1>2
<1> QED BY <1>1, <1>3, RegisterBooks

(* With nothing registered, nothing is booked. *)
LEMMA NothingBooked ==
  ASSUME registered = {}
  PROVE  BookedGreeksInLimit
<1>1. \A d \in Dims : Limit[d] \in Nat
  BY GreeksAssumption
<1>2. ASSUME NEW d \in Dims PROVE Booked(d) = 0
  <2>1. DOMAIN [p \in registered |-> greeks[p][d]] = {}
    OBVIOUS
  <2> QED BY <2>1, SumEmpty DEF Booked, SumFunction
<1> QED BY <1>1, <1>2, BookedIs DEF Magnitude

(* No step of the engine, its callers or the broker takes what is booked   *)
(* out of the limits.                                                      *)
LEMMA NextInLimit ==
  ASSUME NothingHeld, TypeOK, BookedGreeksInLimit, [Next]_vars
  PROVE  BookedGreeksInLimit'
<1>1. \A d \in Dims : Limit[d] \in Nat
  BY GreeksAssumption
<1>2. CASE \E p \in Packages, g \in Proposals : Register(p, g)
  BY <1>2, RegisterInLimit
<1>3. CASE Restart
  <2>1. registered' = {}
    BY <1>3 DEF Restart
  <2>2. ASSUME NEW d \in Dims PROVE Booked(d)' = 0
    <3>1. DOMAIN [p \in registered' |-> greeks'[p][d]] = {}
      BY <2>1
    <3> QED BY <3>1, SumEmpty DEF Booked, SumFunction
  <2> QED BY <1>1, <2>2, GreeksAssumption
          DEF BookedGreeksInLimit, Approved, Booked, Magnitude
<1>4. CASE UNCHANGED <<registered, greeks>>
  BY <1>4 DEF BookedGreeksInLimit
<1> QED
  BY <1>2, <1>3, <1>4
     DEF Next, SubmitBegin, SubmitStep, SubmitReturn, SubmitSkip, SubmitAcked,
         SubmitRaised, Reconcile, RecoverUnknown, DeliverStep, DeliverFill,
         DeliverEnd, CallerStep, MarkUncertain, ExpireUnsent, RepeatFill,
         BrokerStep, BrokerFill, BrokerEnd, LoseReport, vars, engineVars

(* The greeks booked for the registered packages stay in the limits, in    *)
(* every dimension, for every order of registrations and over restarts,    *)
(* when no package holds anything before it is registered.                 *)
THEOREM BookedGreeks == ASSUME NothingHeld PROVE Spec => []BookedGreeksInLimit
<1>1. Init => BookedGreeksInLimit
  BY NothingBooked DEF Init
<1>2. TypeOK /\ BookedGreeksInLimit /\ [Next]_vars => BookedGreeksInLimit'
  BY NextInLimit
<1> QED BY <1>1, <1>2, TypeCorrectness, PTL DEF Spec

-----------------------------------------------------------------------------
(* ENGINE AND PERIODIC CHECK TOGETHER                                      *)
(*                                                                         *)
(* The check writes flags of packages that the engine reads before it      *)
(* sends, between any two calls of the engine.  What holds of the engine   *)
(* alone holds beside it.                                                  *)

(* The check finds no submit() under way, touches neither legs nor greeks  *)
(* and leaves the engine's own block and last result alone.                *)
LEMMA CheckKeeps ==
  ASSUME IInv, CheckOnce \/ CheckFailed
  PROVE  IInv'
<1>1. /\ Idle
      /\ UNCHANGED <<registered, greeks, legs, submittedIds, reconBlocked,
                     lastResult, submitting, next, brokerVars, repeats>>
  BY DEF CheckOnce, CheckFailed, engineVars
<1>2. pkgBlocked' \in [Packages -> BOOLEAN]
  <2>1. CASE CheckOnce
    <3>1. Reconciled \in BOOLEAN
      BY DEF Reconciled
    <3> QED BY <2>1, <3>1 DEF CheckOnce, IInv, TypeOK
  <2>2. CASE CheckFailed
    BY <2>2 DEF CheckFailed, engineVars, IInv, TypeOK
  <2> QED BY <2>1, <2>2
<1>3. faults' \in Nat
  BY DEF CheckOnce, CheckFailed, Fault, IInv, TypeOK
<1>4. TypeOK'
  BY <1>1, <1>2, <1>3 DEF IInv, TypeOK, brokerVars
<1>5. BlockInv'
  BY <1>1 DEF IInv, BlockInv, Idle
<1>6. /\ BrokerInv'
      /\ LegConsistent'
      /\ LiveLegHasOrder'
      /\ NeverOverbooked'
  BY <1>1 DEF IInv, BrokerInv, LegConsistent, LiveLegHasOrder, NeverOverbooked,
              brokerVars
<1> QED BY <1>4, <1>5, <1>6 DEF IInv

(* A step of the two is a step of the engine, its callers or the broker,   *)
(* or one of the check, which leaves greeks and orders alone.              *)
LEMMA LiveSteps ==
  ASSUME [LiveNext]_liveVars
  PROVE  \/ [Next]_vars
         \/ /\ CheckOnce \/ CheckFailed
            /\ UNCHANGED <<registered, greeks, order>>
<1>1. CASE EngineNext
  BY <1>1 DEF EngineNext, Next
<1>2. CASE CheckOnce \/ CheckFailed
  BY <1>2 DEF CheckOnce, CheckFailed, engineVars, brokerVars
<1>3. CASE UNCHANGED liveVars
  BY <1>3 DEF liveVars
<1> QED BY <1>1, <1>2, <1>3 DEF LiveNext

(* The inductive invariant of the engine holds beside the check: legs      *)
(* agree with their fills and orders, and nothing is over-booked.          *)
THEOREM LiveInvariance == LiveSpec => []IInv
<1>1. LiveInit => IInv
  BY InitIInv DEF LiveInit
<1>2. IInv /\ [LiveNext]_liveVars => IInv'
  BY LiveSteps, NextIInv, CheckKeeps
<1> QED BY <1>1, <1>2, PTL DEF LiveSpec

(* Also beside a check that lifts and sets the flags of packages, no order *)
(* reaches the broker unless the engine's last reconciliation succeeded    *)
(* and neither the engine nor the package has been blocked since.          *)
THEOREM LiveBlockHolds == LiveSpec => NoOrderWhileBlocked
<1>1. IInv /\ [LiveNext]_liveVars =>
        [(\E c \in Clients : Placed(c)) =>
           /\ lastResult = "ok"
           /\ ~reconBlocked
           /\ submitting \in registered
           /\ ~pkgBlocked[submitting]]_vars
  <2> SUFFICES ASSUME IInv, [LiveNext]_liveVars,
                      NEW c \in Clients, Placed(c)
               PROVE  /\ lastResult = "ok"
                      /\ ~reconBlocked
                      /\ submitting \in registered
                      /\ ~pkgBlocked[submitting]
    OBVIOUS
  <2>1. order' # order
    BY DEF Placed
  <2>2. [Next]_vars
    BY <2>1, LiveSteps
  <2>3. ~Idle
    BY <2>2, OnlySubmitPlaces
  <2> QED BY <2>3 DEF IInv, BlockInv
<1> QED BY <1>1, LiveInvariance, PTL DEF LiveSpec, NoOrderWhileBlocked

(* The greeks booked for the registered packages stay in the limits while  *)
(* the check goes on, when no package holds anything before it is          *)
(* registered.                                                             *)
THEOREM LiveBookedGreeks ==
  ASSUME NothingHeld PROVE LiveSpec => []BookedGreeksInLimit
<1>1. LiveInit => BookedGreeksInLimit
  BY NothingBooked DEF LiveInit, Init
<1>2. IInv /\ BookedGreeksInLimit /\ [LiveNext]_liveVars => BookedGreeksInLimit'
  <2> SUFFICES ASSUME IInv, BookedGreeksInLimit, [LiveNext]_liveVars
               PROVE  BookedGreeksInLimit'
    OBVIOUS
  <2>1. CASE [Next]_vars
    BY <2>1, NextInLimit DEF IInv
  <2>2. CASE UNCHANGED <<registered, greeks>>
    BY <2>2 DEF BookedGreeksInLimit
  <2> QED BY <2>1, <2>2, LiveSteps
<1> QED BY <1>1, <1>2, LiveInvariance, PTL DEF LiveSpec

-----------------------------------------------------------------------------
(* NO FALSE ALARM, when every leg has a client id of its own               *)

DistinctClientIds == \A l, m \in Legs : Client[l] = Client[m] => l = m

(* No order is filled beyond its quantity, and one filled in full is       *)
(* neither live nor ended otherwise.                                       *)
OrderFits ==
  \A c \in Clients :
    IF order[c].status = "filled" THEN order[c].filled = Quantity[c]
                                  ELSE order[c].filled < Quantity[c]

(* An order whose story the legs have not been told to its end. *)
Open(c) == order[c].status = "live" \/ unreported[c] > 0 \/ c \in endReport

(* As long as nothing went wrong: every order is one of a known leg, a leg *)
(* is planned until it has an order and working until it knows the end of  *)
(* it, and it lacks no contracts but those under way.                      *)
Calm ==
  /\ \A c \in Clients :
       order[c].status # "none" => c \in {Client[l] : l \in KnownLegs}
  /\ \A l \in Legs :
       /\ (legs[l].state = "planned") = (order[Client[l]].status = "none")
       /\ Open(Client[l]) => legs[l].state \in {"submitted", "partially_filled"}
       /\ legs[l].filled + unreported[Client[l]] = order[Client[l]].filled

CalmInv == OrderFits /\ (faults = 0 => Calm)

(* Only orders that are placed, filled and ended change. *)
LEMMA OrderFitsStep ==
  ASSUME IInv, OrderFits, [Next]_vars
  PROVE  OrderFits'
<1> USE StaticAssumption
<1>0. /\ order \in [Clients -> [status : OrderStates, filled : Nat]]
      /\ \A c \in Clients : Quantity[c] \in Nat \ {0}
  BY DEF IInv, TypeOK
<1>1. ASSUME NEW c \in Clients, order[c].status = "none", Place(c)
      PROVE  OrderFits'
  BY <1>0, <1>1 DEF Place, OrderFits
<1>2. ASSUME NEW c \in Clients, NEW q \in 1 .. Quantity[c], BrokerFill(c, q)
      PROVE  OrderFits'
  <2>1. /\ order[c].status = "live" /\ order[c].filled \in Nat
        /\ q \in 1 .. Quantity[c] - order[c].filled
        /\ order[c].filled < Quantity[c]
    BY <1>0, <1>2 DEF BrokerFill, OrderFits
  <2> DEFINE new == order[c].filled + q
  <2>2. new \in Nat /\ new <= Quantity[c]
    BY <1>0, <2>1
  <2>3. order' = [order EXCEPT ![c] =
          [status |-> IF new = Quantity[c] THEN "filled" ELSE "live", filled |-> new]]
    BY <1>2 DEF BrokerFill
  <2> HIDE DEF new
  <2>4. ASSUME NEW d \in Clients
        PROVE  IF order'[d].status = "filled" THEN order'[d].filled = Quantity[d]
                                              ELSE order'[d].filled < Quantity[d]
    <3>1. CASE d = c
      BY <1>0, <2>2, <2>3, <3>1
    <3>2. CASE d # c
      BY <1>0, <2>3, <3>2 DEF OrderFits
    <3> QED BY <3>1, <3>2
  <2> QED BY <2>4 DEF OrderFits
<1>3. ASSUME NEW c \in Clients, NEW s \in {"cancelled", "rejected", "expired"},
             BrokerEnd(c, s)
      PROVE  OrderFits'
  BY <1>0, <1>3 DEF BrokerEnd, OrderFits
<1>4. CASE UNCHANGED order
  BY <1>4 DEF OrderFits
<1>5. ASSUME NEW l \in Legs, SubmitAcked(l) \/ SubmitRaised(l)
      PROVE  UNCHANGED order \/ \E c \in Clients : order[c].status = "none" /\ Place(c)
  BY <1>5 DEF SubmitAcked, SubmitRaised
<1> QED
  BY <1>1, <1>2, <1>3, <1>4, <1>5
     DEF Next, Register, SubmitBegin, SubmitStep, SubmitReturn, SubmitSkip,
         Reconcile, RecoverUnknown, Restart, DeliverStep, DeliverFill, DeliverEnd,
         CallerStep, MarkUncertain, ExpireUnsent, RepeatFill, BrokerStep, LoseReport,
         vars, brokerVars

(* The conjuncts of Calm for one client id and one leg. *)
Claimed(c) == order[c].status # "none" => c \in {Client[l] : l \in KnownLegs}
Informed(l) ==
  /\ (legs[l].state = "planned") = (order[Client[l]].status = "none")
  /\ Open(Client[l]) => legs[l].state \in {"submitted", "partially_filled"}
  /\ legs[l].filled + unreported[Client[l]] = order[Client[l]].filled

LEMMA CalmIs ==
  Calm <=> (\A c \in Clients : Claimed(c)) /\ (\A l \in Legs : Informed(l))
BY DEF Calm, Claimed, Informed

LEMMA CalmTypes ==
  ASSUME IInv
  PROVE  /\ legs \in [Legs -> LegRecord]
         /\ order \in [Clients -> [status : OrderStates, filled : Nat]]
         /\ unreported \in [Clients -> Nat]
         /\ \A l \in Legs : Client[l] \in Clients
         /\ \A c \in Clients : Quantity[c] \in Nat \ {0}
BY StaticAssumption DEF IInv, TypeOK

(* A new package brings legs and takes none away. *)
LEMMA RegisterCalm ==
  ASSUME Calm, NEW p \in Packages, NEW g \in Proposals, Register(p, g)
  PROVE  Calm'
<1>1. KnownLegs \subseteq KnownLegs'
  BY DEF Register, KnownLegs
<1> QED BY <1>1 DEF Register, Calm, Open, brokerVars

(* An acknowledged leg was planned and is working. *)
LEMMA AckedCalm ==
  ASSUME DistinctClientIds, IInv, Calm, NEW l \in Legs, SubmitAcked(l)
  PROVE  Calm'
<1> DEFINE c == Client[l]
<1>0. c \in Clients
  BY CalmTypes
<1>1. /\ order[c].status = "none"
      /\ order' = [order EXCEPT ![c] = [status |-> "live", filled |-> 0]]
      /\ legs' = [legs EXCEPT ![l] = Apply(@, Quantity[c], "submit_ack", 0)]
      /\ UNCHANGED <<registered, unreported, endReport>>
  BY DEF SubmitAcked, Place
<1>2. /\ legs[l].state = "planned" /\ legs[l] \in LegRecord
      /\ legs[l].filled + unreported[c] = order[c].filled
      /\ order[c].filled = 0
  BY <1>0, <1>1, CalmTypes DEF Calm, IInv, BrokerInv
<1>3. legs'[l].state = "submitted" /\ legs'[l].filled = legs[l].filled
  <2>1. legs'[l] = Apply(legs[l], Quantity[c], "submit_ack", 0)
    BY <1>1, CalmTypes
  <2> QED BY <1>2, <2>1 DEF Apply, Accepts, Moved, Target, LegRecord
<1>4. /\ order'[c].status = "live" /\ order'[c].filled = 0
      /\ \A d \in Clients : d # c => order'[d] = order[d]
  BY <1>0, <1>1, CalmTypes
<1>5. \A m \in Legs : m # l => legs'[m] = legs[m] /\ Client[m] # c
  BY <1>1, CalmTypes DEF DistinctClientIds
<1>6. KnownLegs' = KnownLegs /\ l \in KnownLegs
  <2>1. submitting \in registered /\ l \in LegsOf(submitting)
    BY DEF SubmitAcked, Calling, AtLeg, LegsOf, IInv, BlockInv
  <2> QED BY <1>1, <2>1 DEF KnownLegs
<1>7. ASSUME NEW d \in Clients PROVE Claimed(d)'
  <2>1. CASE d = c
    BY <1>6, <2>1 DEF Claimed
  <2>2. CASE d # c
    BY <1>4, <1>6, <2>2 DEF Claimed, Calm
  <2> QED BY <2>1, <2>2
<1>8. ASSUME NEW m \in Legs PROVE Informed(m)'
  <2>1. CASE m = l
    BY <1>1, <1>2, <1>3, <1>4, <2>1 DEF Informed
  <2>2. CASE m # l
    <3>1. Client[m] \in Clients /\ Informed(m)
      BY CalmTypes DEF Calm, Informed
    <3> QED BY <1>1, <1>4, <1>5, <2>2, <3>1 DEF Informed, Open
  <2> QED BY <2>1, <2>2
<1> QED BY <1>7, <1>8 DEF Calm, Claimed, Informed

(* A fill that is reported in order is booked. *)
LEMMA DeliverFillCalm ==
  ASSUME DistinctClientIds, IInv, OrderFits, Calm, NEW l \in Legs,
         NEW q \in 1 .. unreported[Client[l]], DeliverFill(l, q)
  PROVE  Calm'
<1> DEFINE c == Client[l]
           sum == legs[l].filled + q
<1>0. /\ c \in Clients /\ Quantity[c] \in Nat \ {0} /\ q \in Nat /\ q > 0
      /\ legs[l] \in LegRecord /\ legs[l].filled \in Nat
      /\ unreported[c] \in Nat /\ q <= unreported[c] /\ order[c].filled \in Nat
  BY CalmTypes DEF LegRecord
<1>1. /\ legs' = [legs EXCEPT ![l] = Apply(@, Quantity[c], "fill", q)]
      /\ unreported' = [unreported EXCEPT ![c] = @ - q]
      /\ UNCHANGED <<registered, order, endReport>>
  BY DEF DeliverFill, Update
<1>2. /\ legs[l].state \in {"submitted", "partially_filled"}
      /\ legs[l].filled + unreported[c] = order[c].filled
      /\ order[c].status # "none"
  BY <1>0 DEF Calm, Open
<1>3. order[c].filled <= Quantity[c] /\ (sum = Quantity[c] => order[c].status = "filled")
  BY <1>0, <1>2 DEF OrderFits
<1>4. sum <= Quantity[c] /\ sum \in Nat
  BY <1>0, <1>2, <1>3
<1>5. /\ legs'[l].filled = sum
      /\ legs'[l].state = IF sum = Quantity[c] THEN "filled" ELSE "partially_filled"
  <2>1. legs'[l] = Apply(legs[l], Quantity[c], "fill", q)
    BY <1>1, CalmTypes
  <2> QED BY <1>0, <1>2, <1>4, <2>1 DEF Apply, Accepts, Moved
<1>6. /\ unreported'[c] = unreported[c] - q
      /\ \A d \in Clients : d # c => unreported'[d] = unreported[d]
  BY <1>0, <1>1, CalmTypes
<1>7. \A m \in Legs : m # l => legs'[m] = legs[m] /\ Client[m] # c
  BY <1>1, CalmTypes DEF DistinctClientIds
<1>8. ASSUME NEW d \in Clients PROVE Claimed(d)'
  BY <1>1 DEF Calm, Claimed, KnownLegs
<1>9. Informed(l)'
  <2>1. (legs'[l].state = "planned") = (order'[c].status = "none")
    BY <1>1, <1>2, <1>5
  <2>2. legs'[l].filled + unreported'[c] = order'[c].filled
    <3>1. sum + (unreported[c] - q) = order[c].filled
      BY <1>0, <1>2
    <3> QED BY <1>1, <1>5, <1>6, <3>1
  <2>3. sum = Quantity[c] => ~Open(c)'
    <3> SUFFICES ASSUME sum = Quantity[c] PROVE ~Open(c)'
      OBVIOUS
    <3>1. order[c].status = "filled"
      BY <1>3
    <3>2. unreported'[c] = 0
      BY <1>0, <1>2, <1>3, <1>4, <1>6
    <3>3. c \notin endReport
      BY <1>0, <3>1 DEF IInv, BrokerInv, EndEvent
    <3> QED BY <1>1, <3>1, <3>2, <3>3 DEF Open
  <2>4. Open(c)' => legs'[l].state \in {"submitted", "partially_filled"}
    BY <1>5, <2>3
  <2> QED BY <2>1, <2>2, <2>4 DEF Informed
<1>10. ASSUME NEW m \in Legs, m # l PROVE Informed(m)'
  <2>1. Client[m] \in Clients /\ Informed(m)
    BY CalmTypes DEF Calm, Informed
  <2> QED BY <1>1, <1>6, <1>7, <1>10, <2>1 DEF Informed, Open
<1> QED BY <1>8, <1>9, <1>10 DEF Calm, Claimed, Informed

(* The end of an order, told after all of its fills, closes a leg that     *)
(* lacks nothing.                                                          *)
LEMMA DeliverEndCalm ==
  ASSUME DistinctClientIds, IInv, Calm, NEW l \in Legs, DeliverEnd(l),
         unreported[Client[l]] = 0
  PROVE  Calm'
<1> DEFINE c == Client[l]
           event == EndEvent[order[c].status]
<1>0. c \in Clients /\ Quantity[c] \in Nat /\ legs[l] \in LegRecord
  BY CalmTypes
<1>1. /\ legs' = [legs EXCEPT ![l] = Apply(@, Quantity[c], event, 0)]
      /\ endReport' = endReport \ {c} /\ c \in endReport
      /\ UNCHANGED <<registered, order, unreported>>
  BY DEF DeliverEnd, Update
<1>2. order[c].status \in DOMAIN EndEvent
  BY <1>0, <1>1 DEF IInv, BrokerInv
<1>3. event \in LifecycleEvents /\ event # "fill"
  BY <1>2 DEF EndEvent, LifecycleEvents
<1>4. order[c].status # "none" /\ order[c].status # "live"
  BY <1>2 DEF EndEvent
<1>5. legs'[l].filled = legs[l].filled /\ legs'[l].state # "planned"
  <2>1. legs'[l] = Apply(legs[l], Quantity[c], event, 0)
    BY <1>1, CalmTypes
  <2>2. legs[l].state # "planned"
    BY <1>4 DEF Calm
  <2> HIDE DEF event
  <2> QED BY <1>0, <1>3, <2>1, <2>2, ApplyBooks, ApplyState
<1>6. \A m \in Legs : m # l => legs'[m] = legs[m] /\ Client[m] # c
  BY <1>1, CalmTypes DEF DistinctClientIds
<1>7. ASSUME NEW d \in Clients PROVE Claimed(d)'
  BY <1>1 DEF Calm, Claimed, KnownLegs
<1>8. Informed(l)'
  <2>1. ~Open(c)'
    BY <1>1, <1>4 DEF Open
  <2>2. Informed(l)
    BY DEF Calm, Informed
  <2> QED BY <1>1, <1>4, <1>5, <2>1, <2>2 DEF Informed
<1>9. ASSUME NEW m \in Legs, m # l PROVE Informed(m)'
  <2>1. Client[m] \in Clients /\ Informed(m)
    BY CalmTypes DEF Calm, Informed
  <2> QED BY <1>1, <1>6, <1>9, <2>1 DEF Informed, Open
<1> QED BY <1>7, <1>8, <1>9 DEF Calm, Claimed, Informed

(* The broker fills a live order: its leg is working. *)
LEMMA BrokerFillCalm ==
  ASSUME IInv, Calm, NEW c \in Clients, NEW q \in 1 .. Quantity[c], BrokerFill(c, q)
  PROVE  Calm'
<1>0. q \in Nat /\ order[c].filled \in Nat /\ unreported[c] \in Nat
  BY CalmTypes
<1>1. /\ order[c].status = "live"
      /\ order'[c].status \in {"live", "filled"}
      /\ order'[c].filled = order[c].filled + q
      /\ \A d \in Clients : d # c => order'[d] = order[d]
      /\ unreported'[c] = unreported[c] + q
      /\ \A d \in Clients : d # c => unreported'[d] = unreported[d]
      /\ UNCHANGED <<registered, legs, endReport>>
  BY CalmTypes DEF BrokerFill, engineVars
<1>2. ASSUME NEW d \in Clients PROVE Claimed(d)'
  <2>1. KnownLegs' = KnownLegs
    BY <1>1 DEF KnownLegs
  <2>2. order[d].status # "none" \/ order'[d].status = "none"
    BY <1>1
  <2> QED BY <2>1, <2>2 DEF Calm, Claimed
<1>3. ASSUME NEW l \in Legs PROVE Informed(l)'
  <2>1. Client[l] \in Clients /\ Informed(l) /\ legs[l].filled \in Nat
    BY CalmTypes DEF Calm, Informed, LegRecord
  <2>2. CASE Client[l] = c
    <3>1. legs[l].state \in {"submitted", "partially_filled"}
      BY <1>1, <2>1, <2>2 DEF Informed, Open
    <3>2. legs[l].filled + (unreported[c] + q) = order[c].filled + q
      BY <1>0, <2>1, <2>2 DEF Informed
    <3>3. legs'[l].filled + unreported'[Client[l]] = order'[Client[l]].filled
      BY <1>1, <2>2, <3>2
    <3> QED BY <1>1, <2>2, <3>1, <3>3 DEF Informed
  <2>3. CASE Client[l] # c
    BY <1>1, <2>1, <2>3 DEF Informed, Open
  <2> QED BY <2>2, <2>3
<1> QED BY <1>2, <1>3 DEF Calm, Claimed, Informed

LEMMA BrokerEndCalm ==
  ASSUME IInv, Calm, NEW c \in Clients,
         NEW s \in {"cancelled", "rejected", "expired"}, BrokerEnd(c, s)
  PROVE  Calm'
<1>1. /\ order[c].status = "live"
      /\ order'[c].status = s
      /\ \A d \in Clients : order'[d].filled = order[d].filled
      /\ \A d \in Clients : d # c => order'[d] = order[d]
      /\ endReport' = endReport \cup {c}
      /\ UNCHANGED <<registered, legs, unreported>>
  BY CalmTypes DEF BrokerEnd, engineVars
<1>2. ASSUME NEW d \in Clients PROVE Claimed(d)'
  <2>1. KnownLegs' = KnownLegs
    BY <1>1 DEF KnownLegs
  <2>2. order[d].status # "none" \/ order'[d].status = "none"
    BY <1>1
  <2> QED BY <2>1, <2>2 DEF Calm, Claimed
<1>3. ASSUME NEW l \in Legs PROVE Informed(l)'
  <2>1. Client[l] \in Clients /\ Informed(l)
    BY CalmTypes DEF Calm, Informed
  <2>2. CASE Client[l] = c
    <3>1. legs[l].state \in {"submitted", "partially_filled"}
      BY <1>1, <2>1, <2>2 DEF Informed, Open
    <3> QED BY <1>1, <2>1, <2>2, <3>1 DEF Informed
  <2>3. CASE Client[l] # c
    BY <1>1, <2>1, <2>3 DEF Informed, Open
  <2> QED BY <2>2, <2>3
<1> QED BY <1>2, <1>3 DEF Calm, Claimed, Informed

(* Every report names an order of a known leg: none is dropped. *)
LEMMA NoReportUnclaimed ==
  ASSUME IInv, Calm, faults = 0, faults' = 0, NEW c \in Clients
  PROVE  ~LoseReport(c)
<1> SUFFICES ASSUME LoseReport(c) PROVE FALSE
  OBVIOUS
<1>1. c \notin {Client[l] : l \in KnownLegs}
  BY DEF LoseReport, Fault
<1>2. order[c].status = "none"
  BY <1>1 DEF Calm
<1>3. order[c].filled = 0 /\ unreported[c] <= 0 /\ unreported[c] \in Nat
      /\ c \notin endReport
  BY <1>2, CalmTypes DEF IInv, BrokerInv, EndEvent
<1> QED BY <1>3 DEF LoseReport

LEMMA CalmStep ==
  ASSUME DistinctClientIds, IInv, CalmInv, [Next]_vars
  PROVE  CalmInv'
<1>1. OrderFits'
  BY OrderFitsStep DEF CalmInv
<1> SUFFICES ASSUME faults' = 0 PROVE Calm'
  BY <1>1 DEF CalmInv
<1>2. \A kind : ~Fault(kind)
  BY DEF Fault, IInv, TypeOK
<1>3. faults = 0
  BY <1>2 DEF Next, Register, SubmitBegin, SubmitStep, SubmitReturn, SubmitSkip,
      SubmitAcked, SubmitRaised, Reconcile, RecoverUnknown, Restart, DeliverStep,
      DeliverFill, DeliverEnd, CallerStep, MarkUncertain, ExpireUnsent, RepeatFill,
      BrokerStep, BrokerFill, BrokerEnd, LoseReport, vars
<1>4. Calm /\ OrderFits
  BY <1>3 DEF CalmInv
<1>5. CASE UNCHANGED <<registered, legs, order, unreported, endReport>>
  BY <1>4, <1>5 DEF Calm, Open, KnownLegs
<1>6. CASE \E p \in Packages, g \in Proposals : Register(p, g)
  BY <1>4, <1>6, RegisterCalm
<1>7. CASE \E l \in Legs : SubmitAcked(l)
  BY <1>4, <1>7, AckedCalm
<1>8. CASE \E l \in Legs : DeliverStep(l)
  <2>1. PICK l \in Legs : DeliverStep(l)
    BY <1>8
  <2>2. DeliverEnd(l) => unreported[Client[l]] = 0
    BY <1>2 DEF DeliverEnd
  <2> QED BY <1>4, <2>1, <2>2, DeliverFillCalm, DeliverEndCalm DEF DeliverStep
<1>9. CASE \E c \in Clients : BrokerStep(c)
  BY <1>4, <1>9, BrokerFillCalm, BrokerEndCalm DEF BrokerStep
<1>10. ASSUME NEW c \in Clients PROVE ~LoseReport(c)
  BY <1>3, <1>4, NoReportUnclaimed
<1> QED
  BY <1>2, <1>5, <1>6, <1>7, <1>8, <1>9, <1>10
     DEF Next, SubmitBegin, SubmitStep, SubmitReturn, SubmitSkip, SubmitRaised,
         Reconcile, RecoverUnknown, Restart, CallerStep, MarkUncertain,
         ExpireUnsent, RepeatFill, vars, engineVars, brokerVars

(* Legs that know all of their orders add up to the broker's positions.    *)
LEMMA PositionsAgree ==
  ASSUME DistinctClientIds, IInv, Calm, \A c \in Clients : unreported[c] = 0,
         NEW s \in Symbols
  PROVE  BrokerPosition(s) = ExpectedPosition(s) /\ BrokerPosition(s) \in Int
<1> DEFINE S == {l \in KnownLegs : Symbol[Client[l]] = s}
           T == {c \in Clients : Symbol[c] = s}
           f == [c \in T |-> Side[c] * order[c].filled]
           g == [l \in S |-> Side[Client[l]] * legs[l].filled]
           name == [l \in S |-> Client[l]]
<1>0. /\ \A c \in Clients : Side[c] \in Int /\ order[c].filled \in Int
      /\ \A l \in Legs : legs[l].filled \in Int /\ Client[l] \in Clients
  BY CalmTypes, StaticAssumption DEF LegRecord
<1>1. KnownLegs \subseteq Legs
  BY StaticAssumption DEF KnownLegs, LegsOf, IInv, TypeOK
<1>2. IsFiniteSet(S) /\ IsFiniteSet(T)
  BY <1>1, StaticAssumption, FS_Subset
<1>3. f \in [T -> Int] /\ g \in [S -> Int] /\ name \in [S -> T]
  <2>1. \A c \in T : Side[c] * order[c].filled \in Int
    BY <1>0
  <2>2. \A l \in S : Side[Client[l]] * legs[l].filled \in Int
    BY <1>0, <1>1
  <2>3. \A l \in S : Client[l] \in T
    BY <1>0, <1>1
  <2> QED BY <2>1, <2>2, <2>3
<1>4. \A l, m \in S : name[l] = name[m] => l = m
  BY <1>1 DEF DistinctClientIds
<1>5. \A l \in S : g[l] = f[name[l]]
  <2> SUFFICES ASSUME NEW l \in S PROVE g[l] = f[name[l]]
    OBVIOUS
  <2>1. legs[l].filled + 0 = order[Client[l]].filled /\ legs[l].filled \in Int
    BY <1>0, <1>1 DEF Calm
  <2>2. legs[l].filled = order[Client[l]].filled
    BY <2>1
  <2>3. name[l] = Client[l] /\ Client[l] \in T
    BY <1>3
  <2> QED BY <2>2, <2>3
<1> DEFINE named == {name[l] : l \in S}
<1>6. named \in SUBSET T
  BY <1>3
<1>7. \A c \in T \ named : f[c] = 0
  <2> SUFFICES ASSUME NEW c \in T \ named PROVE f[c] = 0
    OBVIOUS
  <2>1. c \in Clients /\ c \notin {Client[l] : l \in KnownLegs}
    OBVIOUS
  <2>2. order[c].filled = 0 /\ Side[c] \in Int
    BY <1>0, <2>1 DEF Calm, IInv, BrokerInv
  <2> QED BY <2>2
<1>8. BrokerPosition(s) = SumFunctionOnSet(f, T)
      /\ ExpectedPosition(s) = SumFunctionOnSet(g, S)
  BY DEF BrokerPosition, ExpectedPosition, SumFunction
<1> HIDE DEF S, T, f, g, name
<1>9. SumFunctionOnSet(g, S) = SumFunctionOnSet(f, named)
  BY <1>2, <1>3, <1>4, <1>5, SumRename
<1> HIDE DEF named
<1>10. SumFunctionOnSet(f, T) = SumFunctionOnSet(f, named)
  BY <1>2, <1>3, <1>6, <1>7, SumZeros
<1>11. SumFunctionOnSet(f, T) \in Int
  BY <1>2, <1>3, SumType
<1> QED BY <1>8, <1>9, <1>10, <1>11

(* Without faults, once every report has been delivered and no submit() is *)
(* under way, reconcile() finds nothing to complain of: no order it does   *)
(* not know, no order that differs from its leg, no position that differs  *)
(* from the sum of the legs, when every leg has a client order id of its   *)
(* own.                                                                    *)
THEOREM NoAlarm == ASSUME DistinctClientIds PROVE Spec => []NoFalseAlarm
<1>1. Init => CalmInv
  <2> SUFFICES ASSUME Init PROVE CalmInv
    OBVIOUS
  <2>1. \A l \in Legs : Client[l] \in Clients
    BY StaticAssumption
  <2>2. \A c \in Clients : order[c].status = "none" /\ order[c].filled = 0
                           /\ unreported[c] = 0 /\ c \notin endReport
    BY DEF Init, NoOrder
  <2>3. \A l \in Legs : legs[l].state = "planned" /\ legs[l].filled = 0
    BY DEF Init, NewLeg
  <2>4. \A c \in Clients : 0 < Quantity[c]
    BY StaticAssumption
  <2>5. OrderFits
    BY <2>2, <2>4 DEF OrderFits
  <2>6. Calm
    BY <2>1, <2>2, <2>3 DEF Calm, Open
  <2> QED BY <2>5, <2>6 DEF CalmInv
<1>2. IInv /\ CalmInv /\ [Next]_vars => CalmInv'
  BY CalmStep
<1>3. IInv /\ CalmInv => NoFalseAlarm
  <2> SUFFICES ASSUME IInv, Calm, \A c \in Clients : unreported[c] = 0
               PROVE  Reconciled
    BY DEF CalmInv, NoFalseAlarm
  <2>1. UnknownOrders = {}
    BY DEF UnknownOrders, Calm
  <2>2. ~OrderDrift
    <3> SUFFICES ASSUME NEW l \in KnownLegs, legs[l].state \notin NoOrderExpected
                 PROVE  ~(Magnitude(ActualOrder(Client[l]) - legs[l].filled) > Tolerance)
      BY DEF OrderDrift
    <3>1. l \in Legs /\ Client[l] \in Clients
      BY StaticAssumption DEF KnownLegs, LegsOf, IInv, TypeOK
    <3>2. order[Client[l]].status # "none"
      BY <3>1 DEF Calm, NoOrderExpected
    <3>3. legs[l].filled + 0 = order[Client[l]].filled /\ legs[l].filled \in Nat
      BY <3>1, CalmTypes DEF Calm, LegRecord
    <3>4. ActualOrder(Client[l]) - legs[l].filled = 0
      BY <3>2, <3>3 DEF ActualOrder
    <3> QED BY <3>4, StaticAssumption DEF Magnitude
  <2>3. ~PositionDrift
    <3> SUFFICES ASSUME NEW s \in Symbols
                 PROVE  ~(Magnitude(BrokerPosition(s) - ExpectedPosition(s)) > Tolerance)
      BY DEF PositionDrift
    <3>1. BrokerPosition(s) - ExpectedPosition(s) = 0
      BY PositionsAgree
    <3> QED BY <3>1, StaticAssumption DEF Magnitude
  <2> QED BY <2>1, <2>2, <2>3 DEF Reconciled
<1> QED BY <1>1, <1>2, <1>3, Invariance, PTL DEF Spec

-----------------------------------------------------------------------------
(* NO MISSED MISMATCH, when the legs of a symbol are all on one side       *)

OneSided == \A c, d \in Clients : Symbol[c] = Symbol[d] => Side[c] = Side[d]

(* What reconcile() finds in order is: positions that agree although no    *)
(* leg books more than its order leave no room for a leg that books less.  *)
LEMMA ReconciledAgrees ==
  ASSUME DistinctClientIds, OneSided, Tolerance = 0, IInv, Reconciled,
         \A c \in Clients : repeats[c] = 0
  PROVE  Agree
<1> SUFFICES ASSUME NEW leg \in KnownLegs
             PROVE  legs[leg].filled = order[Client[leg]].filled
  BY DEF Agree
<1> DEFINE s == Symbol[Client[leg]]
           S == {l \in KnownLegs : Symbol[Client[l]] = s}
           T == {c \in Clients : Symbol[c] = s}
           f == [c \in T |-> Side[c] * order[c].filled]
           g == [l \in S |-> Side[Client[l]] * legs[l].filled]
           h == [l \in S |-> Side[Client[l]] * order[Client[l]].filled]
           name == [l \in S |-> Client[l]]
<1>0. /\ \A c \in Clients : Side[c] \in {-1, 1} /\ order[c].filled \in Int
      /\ \A l \in Legs : legs[l].filled \in Int /\ Client[l] \in Clients
      /\ \A l \in Legs : legs[l].filled <= order[Client[l]].filled
  <2>1. \A l \in Legs : legs[l].filled \in Nat /\ Client[l] \in Clients
    BY CalmTypes DEF LegRecord
  <2>2. \A c \in Clients : /\ Side[c] \in {-1, 1} /\ order[c].filled \in Nat
                           /\ unreported[c] \in Nat
    BY CalmTypes, StaticAssumption
  <2>3. \A l \in Legs : legs[l].filled + unreported[Client[l]]
                          <= order[Client[l]].filled + 0
    BY <2>1 DEF IInv, NeverOverbooked
  <2>4. \A l \in Legs : legs[l].filled <= order[Client[l]].filled
    BY <2>1, <2>2, <2>3
  <2> QED BY <2>1, <2>2, <2>4
<1>1. KnownLegs \subseteq Legs
  BY StaticAssumption DEF KnownLegs, LegsOf, IInv, TypeOK
<1>2. IsFiniteSet(S) /\ IsFiniteSet(T)
  BY <1>1, StaticAssumption, FS_Subset
<1>3. f \in [T -> Int] /\ g \in [S -> Int] /\ h \in [S -> Int] /\ name \in [S -> T]
  <2>1. \A c \in T : Side[c] * order[c].filled \in Int
    BY <1>0
  <2>2. \A l \in S : /\ Side[Client[l]] * legs[l].filled \in Int
                     /\ Side[Client[l]] * order[Client[l]].filled \in Int
    BY <1>0, <1>1
  <2>3. \A l \in S : Client[l] \in T
    BY <1>0, <1>1
  <2> QED BY <2>1, <2>2, <2>3
<1>4. \A l, m \in S : name[l] = name[m] => l = m
  BY <1>1 DEF DistinctClientIds
<1>5. \A l \in S : h[l] = f[name[l]]
  BY <1>0, <1>1
<1> DEFINE named == {name[l] : l \in S}
<1>6. named \in SUBSET T
  BY <1>3
<1>7. \A c \in T \ named : f[c] = 0
  <2> SUFFICES ASSUME NEW c \in T \ named PROVE f[c] = 0
    OBVIOUS
  <2>1. c \in Clients /\ c \notin {Client[l] : l \in KnownLegs}
    OBVIOUS
  <2>2. order[c].status = "none"
    BY <2>1 DEF Reconciled, UnknownOrders
  <2>3. order[c].filled = 0 /\ Side[c] \in Int
    BY <1>0, <2>1, <2>2 DEF IInv, BrokerInv
  <2> QED BY <2>3
<1>8. /\ BrokerPosition(s) = SumFunctionOnSet(f, T)
      /\ ExpectedPosition(s) = SumFunctionOnSet(g, S)
  BY DEF BrokerPosition, ExpectedPosition, SumFunction
<1>9. s \in Symbols /\ leg \in S /\ leg \in Legs
  BY <1>0, <1>1, StaticAssumption
<1>10. ~(Magnitude(BrokerPosition(s) - ExpectedPosition(s)) > 0)
  BY <1>9 DEF Reconciled, PositionDrift
<1>11. \A l \in S : Side[Client[l]] = Side[Client[leg]]
  BY <1>0, <1>1, <1>9 DEF OneSided
<1>12. CASE Side[Client[leg]] = 1
  <2>1. \A l \in S : g[l] <= h[l]
    BY <1>0, <1>1, <1>11, <1>12
  <2>2. g[leg] = legs[leg].filled /\ h[leg] = order[Client[leg]].filled
    BY <1>0, <1>9, <1>12
  <2> HIDE DEF S, T, f, g, h, name, named, s
  <2>3. SumFunctionOnSet(f, T) = SumFunctionOnSet(f, named)
    BY <1>2, <1>3, <1>6, <1>7, SumZeros
  <2>4. SumFunctionOnSet(h, S) = SumFunctionOnSet(f, named)
    BY <1>2, <1>3, <1>4, <1>5, SumRename DEF named
  <2>5. SumFunctionOnSet(g, S) \in Int /\ SumFunctionOnSet(h, S) \in Int
    BY <1>2, <1>3, SumType
  <2>6. SumFunctionOnSet(g, S) = SumFunctionOnSet(h, S)
    BY <1>8, <1>10, <2>3, <2>4, <2>5 DEF Magnitude
  <2>7. g[leg] = h[leg]
    BY <1>2, <1>3, <1>9, <2>1, <2>6, SumTight
  <2> QED BY <2>2, <2>7
<1>13. CASE Side[Client[leg]] = -1
  <2>1. \A l \in S : h[l] <= g[l]
    BY <1>0, <1>1, <1>11, <1>13
  <2>2. g[leg] = -legs[leg].filled /\ h[leg] = -order[Client[leg]].filled
    BY <1>0, <1>9, <1>13
  <2> HIDE DEF S, T, f, g, h, name, named, s
  <2>3. SumFunctionOnSet(f, T) = SumFunctionOnSet(f, named)
    BY <1>2, <1>3, <1>6, <1>7, SumZeros
  <2>4. SumFunctionOnSet(h, S) = SumFunctionOnSet(f, named)
    BY <1>2, <1>3, <1>4, <1>5, SumRename DEF named
  <2>5. SumFunctionOnSet(g, S) \in Int /\ SumFunctionOnSet(h, S) \in Int
    BY <1>2, <1>3, SumType
  <2>6. SumFunctionOnSet(h, S) = SumFunctionOnSet(g, S)
    BY <1>8, <1>10, <2>3, <2>4, <2>5 DEF Magnitude
  <2>7. h[leg] = g[leg]
    BY <1>2, <1>3, <1>9, <2>1, <2>6, SumTight
  <2>8. legs[leg].filled \in Int /\ order[Client[leg]].filled \in Int
    BY <1>0, <1>9
  <2> QED BY <2>2, <2>7, <2>8
<1> QED BY <1>0, <1>9, <1>12, <1>13

(* When reconcile() lifts the block every leg agrees with its order at the *)
(* broker, the planned and closed ones included, whose orders it does not  *)
(* compare: without repeated reports, without a tolerance, when the legs   *)
(* of a symbol are on one side and every leg has a client order id of its  *)
(* own.                                                                    *)
THEOREM NoMissedMismatch ==
  ASSUME DistinctClientIds, OneSided, Tolerance = 0
  PROVE  Spec => UnblockedOnlyInAgreement
<1>1. IInv /\ [Next]_vars =>
        [(/\ lastResult' = "ok"
          /\ Reconcile
          /\ \A c \in Clients : repeats[c] = 0) => Agree]_vars
  BY ReconciledAgrees DEF Reconcile
<1> QED BY <1>1, Invariance, PTL DEF Spec, UnblockedOnlyInAgreement

-----------------------------------------------------------------------------
(* SUBMIT LEAVES NO LEG PLANNED, when every leg has a client id of its own *)

(* A recorded id means a leg that was sent, and so does a place before the *)
(* loop's index.                                                           *)
SentInv ==
  /\ next >= 1
  /\ \A l \in Legs : Client[l] \in submittedIds => legs[l].state # "planned"
  /\ ~Idle => \A i \in DOMAIN LegSeq[submitting] :
                i < next => legs[LegSeq[submitting][i]].state # "planned"

(* Only a restart makes a leg planned again. *)
LEMMA SentStaysSent ==
  ASSUME IInv, [Next]_vars, ~Restart, NEW l \in Legs,
         legs[l].state # "planned"
  PROVE  legs'[l].state # "planned"
<1> USE StaticAssumption
<1>0. legs \in [Legs -> LegRecord] /\ \A m \in Legs : Quantity[Client[m]] \in Nat
  BY DEF IInv, TypeOK
<1>1. ASSUME NEW m \in Legs, NEW event \in LifecycleEvents, NEW q \in Nat,
             legs' = [legs EXCEPT ![m] =
                        Apply(@, Quantity[Client[m]], event, q)]
      PROVE  legs'[l].state # "planned"
  <2>1. CASE m = l
    <3>1. legs'[l] = Apply(legs[l], Quantity[Client[l]], event, q)
      BY <1>0, <1>1, <2>1
    <3> QED BY <1>0, <3>1, ApplyState
  <2>2. CASE m # l
    BY <1>0, <1>1, <2>2
  <2> QED BY <2>1, <2>2
<1>2. CASE UNCHANGED legs
  BY <1>2
<1>3. ASSUME NEW m \in Legs, SubmitAcked(m)
      PROVE  legs'[l].state # "planned"
  <2>1. "submit_ack" \in LifecycleEvents /\ 0 \in Nat
    BY DEF LifecycleEvents
  <2> QED BY <1>1, <1>3, <2>1 DEF SubmitAcked
<1>4. ASSUME NEW m \in Legs, DeliverStep(m) \/ CallerStep(m)
      PROVE  legs'[l].state # "planned"
  <2>0. /\ unreported[Client[m]] \in Nat /\ Quantity[Client[m]] \in Nat
        /\ {"fill", "uncertain", "expire"} \subseteq LifecycleEvents
    BY DEF IInv, TypeOK, LifecycleEvents
  <2>1. ASSUME NEW q \in Nat, DeliverFill(m, q) \/ RepeatFill(m, q)
        PROVE  legs'[l].state # "planned"
    BY <1>1, <2>0, <2>1 DEF DeliverFill, RepeatFill, Update
  <2>2. CASE DeliverEnd(m)
    <3>1. EndEvent[order[Client[m]].status] \in LifecycleEvents
      BY <2>2 DEF DeliverEnd, IInv, BrokerInv, EndEvent, LifecycleEvents
    <3> QED BY <1>1, <2>2, <3>1 DEF DeliverEnd, Update
  <2>3. CASE MarkUncertain(m) \/ ExpireUnsent(m)
    BY <1>1, <2>0, <2>3 DEF MarkUncertain, ExpireUnsent, Update
  <2> QED BY <1>4, <2>0, <2>1, <2>2, <2>3 DEF DeliverStep, CallerStep
<1>5. CASE legs' # legs
  BY <1>3, <1>4, <1>5 DEF Next, Register, SubmitBegin, SubmitStep, SubmitReturn,
      SubmitSkip, SubmitRaised, Reconcile, RecoverUnknown, BrokerStep, BrokerFill,
      BrokerEnd, LoseReport, vars, engineVars
<1> QED BY <1>2, <1>5

(* Every step keeps the loop's own fact: the legs before next are not      *)
(* planned any more (submit()).                                            *)
LEMMA SentStep ==
  ASSUME DistinctClientIds, IInv, SentInv, [Next]_vars
  PROVE  SentInv'
<1> USE StaticAssumption
<1>0. next \in Nat /\ submitting \in Packages \cup {None} /\ legs \in [Legs -> LegRecord]
  BY DEF IInv, TypeOK
<1>1. CASE Restart
  BY <1>1 DEF Restart, Abandon, SentInv, Idle
<1>2. CASE ~Restart
  <2>0. \A l \in Legs : legs[l].state # "planned" => legs'[l].state # "planned"
    BY <1>2, SentStaysSent
  <2>1. CASE UNCHANGED <<submittedIds, submitting, next>>
    <3>1. ASSUME ~Idle, NEW i \in DOMAIN LegSeq[submitting]
          PROVE  LegSeq[submitting][i] \in Legs
      BY <1>0, <3>1 DEF Idle
    <3> QED BY <2>0, <2>1, <3>1 DEF SentInv, Idle
  <2>2. CASE submittedIds' = submittedIds /\ submitting' = None /\ next' = 1
    BY <2>0, <2>2 DEF SentInv, Idle
  <2>3. ASSUME NEW p \in Packages, SubmitBegin(p)
        PROVE  SentInv'
    <3>1. /\ submittedIds' = submittedIds /\ legs' = legs
          /\ submitting' = p /\ next' = 1
      BY <2>3 DEF SubmitBegin
    <3>2. \A i \in DOMAIN LegSeq[p] : ~(i < 1)
      OBVIOUS
    <3> QED BY <3>1, <3>2 DEF SentInv, Idle
  <2>4. ASSUME NEW l \in Legs, SubmitSkip(l)
        PROVE  SentInv'
    <3>1. /\ submittedIds' = submittedIds /\ legs' = legs
          /\ submitting' = submitting /\ next' = next + 1
          /\ submitting # None /\ l = LegSeq[submitting][next]
          /\ legs[l].state # "planned"
      BY <2>4 DEF SubmitSkip, AtLeg, Idle, SentInv
    <3>2. \A i \in DOMAIN LegSeq[submitting] : i < next + 1 => i < next \/ i = next
      BY <1>0, <3>1
    <3> QED BY <1>0, <3>1, <3>2 DEF SentInv, Idle
  <2>5. ASSUME NEW l \in Legs, SubmitAcked(l)
        PROVE  SentInv'
    <3>1. /\ submitting # None /\ l = LegSeq[submitting][next]
          /\ submittedIds' = submittedIds \cup {Client[l]}
          /\ \/ submitting' = submitting /\ next' = next + 1
             \/ submitting' = None /\ next' = 1
      BY <2>5 DEF SubmitAcked, Calling, AtLeg, Idle, Abandon
    <3>2. legs'[l].state # "planned"
      <4>1. legs'[l] = Apply(legs[l], Quantity[Client[l]], "submit_ack", 0)
        BY <1>0, <2>5 DEF SubmitAcked
      <4>2. legs[l] \in LegRecord
        BY <1>0
      <4> QED BY <4>1, <4>2 DEF Apply, Accepts, Moved, Target, LegRecord
    <3>3. \A m \in Legs : Client[m] \in submittedIds' => legs'[m].state # "planned"
      BY <2>0, <3>1, <3>2 DEF DistinctClientIds, SentInv
    <3>4. next' >= 1
      BY <1>0, <3>1 DEF SentInv
    <3>5. ASSUME ~Idle', NEW i \in DOMAIN LegSeq[submitting'], i < next'
          PROVE  legs'[LegSeq[submitting'][i]].state # "planned"
      <4>1. submitting' = submitting /\ next' = next + 1 /\ submitting \in Packages
        BY <1>0, <3>1, <3>5 DEF Idle
      <4>2. i < next \/ i = next
        BY <1>0, <3>5, <4>1
      <4>3. LegSeq[submitting][i] \in Legs
        BY <3>5, <4>1
      <4> QED BY <2>0, <3>1, <3>2, <3>5, <4>1, <4>2, <4>3 DEF SentInv, Idle
    <3> QED BY <3>3, <3>4, <3>5 DEF SentInv
  <2> QED
    BY <1>2, <2>1, <2>2, <2>3, <2>4, <2>5
       DEF Next, Register, SubmitStep, SubmitReturn, SubmitRaised, Abandon,
           Reconcile, RecoverUnknown, DeliverStep, DeliverFill, DeliverEnd,
           CallerStep, MarkUncertain, ExpireUnsent, RepeatFill, BrokerStep,
           BrokerFill, BrokerEnd, LoseReport, vars, engineVars
<1> QED BY <1>1, <1>2

(* submit() returns "submitted" only when no leg of the package is left    *)
(* planned, provided no two legs share a client order id.                  *)
THEOREM SubmitCompleteness ==
  ASSUME DistinctClientIds
  PROVE  Spec => SubmitLeavesNoLegPlanned
<1>1. Init => SentInv
  BY DEF Init, SentInv, Idle
<1>2. IInv /\ SentInv /\ [Next]_vars => SentInv'
  BY SentStep
<1>3. IInv /\ SentInv =>
        [SubmitReturn =>
           \A l \in LegsOf(submitting) : legs[l].state # "planned"]_vars
  <2> SUFFICES ASSUME IInv, SentInv, SubmitReturn, NEW l \in LegsOf(submitting)
               PROVE  legs[l].state # "planned"
    OBVIOUS
  <2>1. /\ submitting \in Packages /\ next \in Nat /\ next >= 1
        /\ next \notin DOMAIN LegSeq[submitting] /\ ~Idle
    BY DEF SubmitReturn, Idle, IInv, TypeOK, SentInv
  <2>2. PICK i \in DOMAIN LegSeq[submitting] : l = LegSeq[submitting][i]
    BY DEF LegsOf
  <2>3. i < next
    BY <2>1, StaticAssumption
  <2> QED BY <2>1, <2>2, <2>3 DEF SentInv
<1> QED
  BY <1>1, <1>2, <1>3, Invariance, PTL DEF Spec, SubmitLeavesNoLegPlanned

=============================================================================
