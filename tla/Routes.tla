------------------------------- MODULE Routes -------------------------------
(***************************************************************************)
(* The router's choice among the quotes of a contract, in Python           *)
(* (SmartRouter.choose) and in C++ (optivio::choose): the first of the     *)
(* cheapest, where a quote costs its relative spread and one over its size.*)
(* Costs are fractions, compared without rounding.  The quotes are what    *)
(* quote_store.py makes of the payloads of the market, whose prices are    *)
(* floats as in Gates, none standing for zero.                             *)
(***************************************************************************)
EXTENDS Gates, SequencesExt

(* build_quote_from_snapshot and build_quote_from_stream_event: no quote   *)
(* for a missing or crossed side or an unknown time; the Quote model then  *)
(* raises on the prices that pass every comparison.                        *)
Unusable(raw) ==
  \/ AtMost(raw.bid, Zero) \/ AtMost(raw.ask, Zero) \/ Less(raw.ask, raw.bid)
  \/ raw.bid_size < 1 \/ raw.ask_size < 1
  \/ ~raw.timed
Refused(raw) == ~Less(Zero, raw.bid) \/ ~Less(Zero, raw.ask)
BuildQuote(raw) ==
  IF Unusable(raw) \/ Refused(raw) THEN << >>
  ELSE <<[symbol |-> raw.symbol, bid_size |-> raw.bid_size, ask_size |-> raw.ask_size,
          bid |-> CHOOSE b \in raw.bid : TRUE, ask |-> CHOOSE a \in raw.ask : TRUE]>>
BuildQuotes(raws) == FlattenSeq([i \in DOMAIN raws |-> BuildQuote(raws[i])])

Smaller(a, b) == IF b < a THEN b ELSE a
SizeOf(q) == Smaller(q.bid_size, q.ask_size)

(* spread / mid + 1 / size *)
CostNumerator(q) == 2 * (q.ask - q.bid) * SizeOf(q) + q.bid + q.ask
CostDenominator(q) == (q.bid + q.ask) * SizeOf(q)
Cheaper(q, r) ==
  CostNumerator(q) * CostDenominator(r) < CostNumerator(r) * CostDenominator(q)

PythonEligible(q, symbol, quantity) == q.symbol = symbol /\ SizeOf(q) >= quantity
CppEligible(q, quantity) ==
  SizeOf(q) >= quantity /\ q.bid >= 0 /\ q.ask >= q.bid /\ q.bid + q.ask > 0

(* The scan over the eligible quotes keeps the best so far; 0 is none. *)
Scan(quotes, eligible) ==
  FoldLeft(LAMBDA best, i :
      IF i \in eligible /\ (best = 0 \/ Cheaper(quotes[i], quotes[best])) THEN i ELSE best,
    0, [i \in DOMAIN quotes |-> i])

PythonChoose(quotes, symbol, quantity) ==
  Scan(quotes, {i \in DOMAIN quotes : PythonEligible(quotes[i], symbol, quantity)})
CppChoose(quotes, quantity) ==
  Scan(quotes, {i \in DOMAIN quotes : CppEligible(quotes[i], quantity)})

-----------------------------------------------------------------------------
(* The quotes of one contract, which is what a caller hands to the C++     *)
(* router.                                                                 *)
OfSymbol(quotes, symbol) ==
  FlattenSeq([i \in DOMAIN quotes |->
                IF quotes[i].symbol = symbol THEN <<quotes[i]>> ELSE << >>])

(* Whatever the market sends, both routers choose among the quotes that are *)
(* made of it for one contract the first of the cheapest that are large     *)
(* enough, and choose none only if there is none (build_quote_*,            *)
(* SmartRouter.choose, optivio::choose).                                    *)
RoutesAgree(raws, symbol, quantity) ==
  LET quotes == BuildQuotes(raws)
      own == OfSymbol(quotes, symbol)
      large == {i \in DOMAIN own : SizeOf(own[i]) >= quantity}
      best == CppChoose(own, quantity)
      python == PythonChoose(quotes, symbol, quantity)
  IN
  /\ IF large = {} THEN best = 0
     ELSE /\ best \in large
          /\ \A i \in large : /\ ~Cheaper(own[i], own[best])
                               /\ i < best => Cheaper(own[best], own[i])
  /\ IF best = 0 THEN python = 0 ELSE python # 0 /\ quotes[python] = own[best]
=============================================================================
