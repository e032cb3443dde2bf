------------------------------ MODULE Backtest ------------------------------
(***************************************************************************)
(* OptionsBacktester.run (validation/backtest.py): intents are matched     *)
(* with the quotes of their own time, in order, and cash is booked.        *)
(*                                                                         *)
(* b: [times, quotes, intents, cash, slip, commission, scale, multiplier]; *)
(* times are those with quotes, in order, quotes and intents functions of  *)
(* times to sequences.  Money is counted in units of 1 / b.scale, so that  *)
(* slippage, b.slip parts of b.scale, stays whole.  Return, sharpe and     *)
(* drawdown of the result are left out.                                    *)
(***************************************************************************)
EXTENDS Integers, Sequences, FiniteSetsExt, SequencesExt

(* quote_map: of several quotes of a contract the last. *)
QuotesOf(quotes, symbol) ==
  LET own == {i \in DOMAIN quotes : quotes[i].symbol = symbol} IN
  IF own = {} THEN {} ELSE {quotes[Max(own)]}

(* A limit, if there is one, must be met by the other side of the market. *)
Meets(intent, q) ==
  \A limit \in intent.limit :
    IF intent.side = "buy" THEN q.ask <= limit ELSE q.bid >= limit
BasePrice(intent, q) ==
  IF intent.side = "buy" THEN Min({q.ask} \cup intent.limit)
                         ELSE Max({q.bid} \cup intent.limit)
Price(b, intent, q) ==
  IF intent.side = "buy" THEN BasePrice(intent, q) * (b.scale + b.slip)
                         ELSE Max({0, BasePrice(intent, q) * (b.scale - b.slip)})

Fill(b, t, intent, q) ==
  [time |-> t, symbol |-> intent.symbol, side |-> intent.side,
   quantity |-> intent.quantity, price |-> Price(b, intent, q),
   fee |-> b.commission * intent.quantity]
FillsAt(b, t) ==
  FlattenSeq([i \in DOMAIN b.intents[t] |->
    LET intent == b.intents[t][i] IN
    SetToSeq({Fill(b, t, intent, q) :
                q \in {q \in QuotesOf(b.quotes[t], intent.symbol) : Meets(intent, q)}})])

CashFlow(b, fill) ==
  LET gross == fill.price * fill.quantity * b.multiplier IN
  IF fill.side = "buy" THEN 0 - gross - fill.fee ELSE gross - fill.fee

(* The loop over the times with quotes. *)
Run(b) ==
  FoldLeft(LAMBDA r, t :
      LET fills == FillsAt(b, t)
          cash == r.cash + SumFunction([i \in DOMAIN fills |-> CashFlow(b, fills[i])])
      IN [cash |-> cash, curve |-> Append(r.curve, cash), fills |-> r.fills \o fills],
    [cash |-> b.cash, curve |-> << >>, fills |-> << >>], b.times)

-----------------------------------------------------------------------------
(* A backtest knows nothing of the future: cut after any time, it has the   *)
(* same fills and the same curve so far; no fill is better than the market  *)
(* of its time; and what is bought and sold again at one time never gains   *)
(* (run).                                                                   *)
Traded(b, t, side, symbol) ==
  LET fills == FillsAt(b, t) IN
  SumFunction([i \in DOMAIN fills |->
                 IF fills[i].side = side /\ fills[i].symbol = symbol
                 THEN fills[i].quantity ELSE 0])
SymbolsFilled(b, t) == {f.symbol : f \in ToSet(FillsAt(b, t))}

BacktestSound(b) ==
  LET whole == Run(b) IN
  /\ \A n \in 0..Len(b.times) :
       LET cut == Run([b EXCEPT !.times = SubSeq(b.times, 1, n)]) IN
       /\ cut.curve = SubSeq(whole.curve, 1, n)
       /\ IsPrefix(cut.fills, whole.fills)
  /\ \A f \in ToSet(whole.fills) : \E q \in QuotesOf(b.quotes[f.time], f.symbol) :
       IF f.side = "buy" THEN f.price >= q.ask * b.scale ELSE f.price <= q.bid * b.scale
  /\ \A n \in DOMAIN b.times :
       (\A s \in SymbolsFilled(b, b.times[n]) :
          Traded(b, b.times[n], "buy", s) = Traded(b, b.times[n], "sell", s))
       => whole.curve[n] <= (IF n = 1 THEN b.cash ELSE whole.curve[n - 1])
=============================================================================
