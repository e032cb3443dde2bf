------------------------------ MODULE MultiLeg ------------------------------
(***************************************************************************)
(* The pure part of options_agent/execution/multileg.py: the state machine *)
(* of one option leg (Leg.apply), the state a package derives from its     *)
(* legs (strategy_state) and the portfolio limit on greeks                 *)
(* (GreeksRiskGate.approve).  No variables: the engine's module applies    *)
(* these operators to the legs and packages it holds.                      *)
(***************************************************************************)
EXTENDS Integers

-----------------------------------------------------------------------------
(* LEGS *)

LegStates == {"planned", "submitted", "partially_filled", "filled",
              "cancel_pending", "cancelled", "rejected", "expired", "unknown"}

LifecycleEvents == {"submit_ack", "fill", "cancel_ack", "reject", "expire",
                    "uncertain"}

(* A leg's mutable part.  Its client id, symbol, side and quantity never   *)
(* change and are constants of the module that holds it.                   *)
LegRecord == [state : LegStates, filled : Nat]

NewLeg == [state |-> "planned", filled |-> 0]

(* Mutant of Accepts: the quantity of a fill is not checked.               *)
AcceptsAnyFill(leg, quantity, event, q) ==
  \/ event = "submit_ack" /\ leg.state = "planned"
  \/ event = "fill" /\ leg.state \in {"submitted", "partially_filled"}
  \/ /\ event = "cancel_ack"
     /\ leg.state \in {"submitted", "partially_filled", "cancel_pending"}
  \/ event \in {"reject", "expire", "uncertain"}

(* Leg.apply accepts the event; otherwise it raises ValueError.            *)
Accepts(leg, quantity, event, q) ==
  \/ event = "submit_ack" /\ leg.state = "planned"
  \/ /\ event = "fill"
     /\ leg.state \in {"submitted", "partially_filled"}
     /\ q > 0
     /\ leg.filled + q <= quantity
  \/ /\ event = "cancel_ack"
     /\ leg.state \in {"submitted", "partially_filled", "cancel_pending"}
  \/ event \in {"reject", "expire", "uncertain"}

(* Mutant of Target: an event's name taken for a state's. *)
TargetByEventName ==
  [submit_ack |-> "submitted", cancel_ack |-> "cancelled",
   reject |-> "reject", expire |-> "expire", uncertain |-> "unknown"]

(* The state each event but a fill leads to. *)
Target == [submit_ack |-> "submitted", cancel_ack |-> "cancelled",
           reject |-> "rejected", expire |-> "expired",
           uncertain |-> "unknown"]

(* Mutant of Moved: every fill is taken for a complete one. *)
MovedInFull(leg, quantity, event, q) ==
  IF event = "fill" THEN [state |-> "filled", filled |-> quantity]
                    ELSE [leg EXCEPT !.state = Target[event]]

(* The leg after an accepted event. *)
Moved(leg, quantity, event, q) ==
  IF event = "fill"
    THEN [state  |-> IF leg.filled + q = quantity THEN "filled"
                                                  ELSE "partially_filled",
          filled |-> leg.filled + q]
    ELSE [leg EXCEPT !.state = Target[event]]

(* What apply keeps true of a leg: its fill count and its state agree and  *)
(* the count never passes the quantity.                                    *)
WellFormed(leg, quantity) ==
  /\ leg.filled <= quantity
  /\ leg.state \in {"planned", "submitted"} => leg.filled = 0
  /\ leg.state = "partially_filled" => leg.filled \in 1 .. quantity - 1
  /\ leg.state = "filled" => leg.filled = quantity

(* Leg.apply as its caller sees it: an exception leaves the leg as it was. *)
Apply(leg, quantity, event, q) ==
  IF Accepts(leg, quantity, event, q) THEN Moved(leg, quantity, event, q)
                                      ELSE leg

-----------------------------------------------------------------------------
(* PACKAGES *)

(* The state of a package whose legs are in these states. *)
StrategyState(states) ==
  CASE "unknown" \in states -> "blocked_unknown"
    [] "unknown" \notin states /\ "rejected" \in states -> "rejected"
    [] states \subseteq {"filled"} -> "filled"
    [] /\ states \cap {"unknown", "rejected"} = {}
       /\ "partially_filled" \in states -> "partially_filled"
    [] OTHER -> "working"

-----------------------------------------------------------------------------
(* GREEKS: one integer per dimension (delta, gamma, theta, vega, rho) *)

Magnitude(x) == IF x < 0 THEN -x ELSE x

(* GreeksRiskGate.approve: every dimension of the total is in its limit.   *)
Approved(total, limit) ==
  \A d \in DOMAIN limit : Magnitude(total[d]) <= limit[d]
=============================================================================
