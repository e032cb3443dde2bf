------------------------------- MODULE Gates -------------------------------
(***************************************************************************)
(* The single-order risk gate, which the repository holds three times:     *)
(* RiskGate.approve in Python (with the settings it is built from),        *)
(* optivio_risk::approve in Rust with its C ABI, and validate_order in     *)
(* OCaml.  A gate is the list of its refusals in the order the code tests  *)
(* them, and its verdict the first that applies.                           *)
(*                                                                         *)
(* A floating-point number is the set of the integers it equals: {n} is    *)
(* the finite number n, {Infinity} is infinity and {} is NaN, so that      *)
(* every comparison with NaN is false, as in IEEE arithmetic.              *)
(* daily_loss is in the unit of equity * max_daily_loss_fraction.          *)
(***************************************************************************)
EXTENDS Integers, Sequences, FiniteSetsExt

CONSTANT Infinity   \* larger than every sum and product of the finite inputs
ASSUME InfinityAssumption == Infinity \in Nat

NaN == {}
Zero == {0}
Less(x, y) == \E a \in x, b \in y : a < b
AtMost(x, y) == \E a \in x, b \in y : a <= b
IsFinite(x) == x # NaN /\ x # {Infinity}
Plus(x, y) ==
  {IF Infinity \in {a, b} THEN Infinity ELSE a + b : a \in x, b \in y}
Times(x, y) ==
  IF {x, y} = {Zero, {Infinity}} THEN NaN
  ELSE {IF Infinity \in {a, b} THEN Infinity ELSE a * b : a \in x, b \in y}

(* The first refusal that applies, "approved" when none does. *)
Verdict(refusals) ==
  LET hits == {i \in DOMAIN refusals : refusals[i][2]} IN
  IF hits = {} THEN "approved" ELSE refusals[Min(hits)][1]

-----------------------------------------------------------------------------
(* Settings: text that is not a number and numbers below the bound give    *)
(* the default; NaN is not below any bound.                                *)
Setting(raw, default) ==
  IF raw.isNumber /\ ~Less(raw.value, Zero) THEN raw.value ELSE default

Limits(env, default) == [f \in DOMAIN default |-> Setting(env[f], default[f])]

(* (limit_price or 0.0) * quantity * multiplier; no price is Zero. *)
Notional(price, quantity, multiplier) == Times(price, {quantity * multiplier})

(* Mutant of PythonRefusals: the order does not count as open notional. *)
PythonRefusalsBefore(limits, snapshot, notional) ==
  << <<"kill switch", snapshot.kill>>,
     <<"order", AtMost(notional, Zero) \/ Less(limits.order, notional)>>,
     <<"open", Less(limits.open, snapshot.open)>>,
     <<"loss", Less(Times(snapshot.equity, limits.fraction), snapshot.loss)>> >>

(* RiskGate.approve. *)
PythonRefusals(limits, snapshot, notional) ==
  << <<"kill switch", snapshot.kill>>,
     <<"order", AtMost(notional, Zero) \/ Less(limits.order, notional)>>,
     <<"open", Less(limits.open, Plus(snapshot.open, notional))>>,
     <<"loss", Less(Times(snapshot.equity, limits.fraction), snapshot.loss)>> >>

PythonGate(limits, snapshot, notional) ==
  Verdict(PythonRefusals(limits, snapshot, notional))

(* Mutant of RustRefusals: the order limit itself is refused. *)
RustRefusalsAtLimit(limits, snapshot, notional) ==
  << <<"kill switch", snapshot.kill>>,
     <<"invalid", ~IsFinite(notional) \/ AtMost(notional, Zero)>>,
     <<"order", AtMost(limits.order, notional)>>,
     <<"open", Less(limits.open, Plus(snapshot.open, notional))>>,
     <<"loss", Less(Times(snapshot.equity, limits.fraction), snapshot.loss)>> >>

RustRefusals(limits, snapshot, notional) ==
  << <<"kill switch", snapshot.kill>>,
     <<"invalid", ~IsFinite(notional) \/ AtMost(notional, Zero)>>,
     <<"invalid", \E x \in {snapshot.equity, snapshot.open, snapshot.loss,
                            limits.order, limits.open, limits.fraction} :
                    ~IsFinite(x)>>,
     <<"order", Less(limits.order, notional)>>,
     <<"open", Less(limits.open, Plus(snapshot.open, notional))>>,
     <<"loss", Less(Times(snapshot.equity, limits.fraction), snapshot.loss)>> >>

(* The code returned through the C ABI, whose kill switch is an int. *)
Codes == <<"kill switch", "invalid", "order", "open", "loss">>
RustGateCode(limits, snapshot, killSwitch, notional) ==
  LET verdict == Verdict(RustRefusals(limits,
                   [snapshot EXCEPT !.kill = (killSwitch # 0)], notional)) IN
  IF verdict = "approved" THEN 0
  ELSE CHOOSE code \in DOMAIN Codes : Codes[code] = verdict

(* The OCaml policy knows one multiplier and neither open notional nor loss. *)
OCamlNotional(price, quantity) == Times(price, {quantity * 100})
OCamlRefusals(config, price, quantity) ==
  << <<"price", ~IsFinite(price) \/ AtMost(price, Zero)>>,
     <<"size", quantity <= 0>>,
     <<"order", Less(config.order, OCamlNotional(price, quantity))>>,
     <<"paper mode", ~config.paper>>,
     <<"kill switch", config.kill>>,
     <<"limit", ~IsFinite(config.order) \/ AtMost(config.order, Zero)>>,
     <<"model", ~config.modelApproved>> >>

OCamlGate(config, price, quantity) ==
  Verdict(OCamlRefusals(config, price, quantity))

-----------------------------------------------------------------------------
(* The gates agree.  On finite numbers Rust refuses what Python refuses and *)
(* for the same reason; whatever the numbers, an order that Rust admits     *)
(* Python admits; and an order that OCaml admits under the same limit and   *)
(* kill switch is not refused by Python for its size, unless its contract   *)
(* is larger than the hundred shares OCaml takes for granted.               *)
Reason(code) ==
  IF code = 0 THEN "approved" ELSE IF code = 2 THEN "order" ELSE Codes[code]

GatesAgree(limits, snapshot, price, quantity, multiplier) ==
  LET notional == Notional(price, quantity, multiplier)
      python == PythonGate(limits, snapshot, notional)
      code == RustGateCode(limits, snapshot, IF snapshot.kill THEN 1 ELSE 0, notional)
      ocaml == OCamlGate([order |-> limits.order, kill |-> snapshot.kill,
                          paper |-> TRUE, modelApproved |-> TRUE], price, quantity)
      finite == \A x \in {snapshot.equity, snapshot.open, snapshot.loss, notional,
                          limits.order, limits.open, limits.fraction} : IsFinite(x)
  IN
  /\ finite => Reason(code) = python
  /\ code = 0 => python = "approved"
  /\ ocaml = "approved" /\ multiplier <= 100 => python \notin {"kill switch", "order"}
=============================================================================
