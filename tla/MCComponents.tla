---------------------------- MODULE MCComponents ----------------------------
(***************************************************************************)
(* The components that share no state, for TLC: a behaviour is one of one  *)
(* component, chosen at the start by `part`, and the rest stays as it was  *)
(* made.  The algorithms without state are evaluated on the inputs of      *)
(* `input`, one initial state for each.                                    *)
(***************************************************************************)
EXTENDS Gates, Routes, WalkForward, OfflinePolicy, Backtest

CONSTANTS
  MaxRetries,                                             \* StreamSupervisor
  Events, MaxLines,                                       \* StateStore
  Base, Magic, Version, Kinds, MaxFrames,                 \* Bridge
  Policies, First, Rewards, MaxFall, MinObservations,     \* PolicyPromotion
  MinAdvantage, MaxOutcomes,
  Agents, Sorted, Clients, Workers,                       \* WorkerPool
  Pages, Tasks, MaxVersion,                               \* ContractMaster
  Symbols, Calls, MaxAge, MaxTime, MaxFeed                \* QuoteStore

VARIABLES
  part, input,
  at, health, attempt, stopped, cancelled,
  lines, alive, lastHash, writing, kept,
  sent, wire, rust, cpp,
  champion, challenger, active, shadow, outcomes, halted, promotions,
  kind, owns, closing, call, waiting, running, outcome,
  listed, contracts, refresh, floor,
  now, latest, known, feed, clocked, quotes, ask, settled

Stream == INSTANCE StreamSupervisor
Store == INSTANCE StateStore
Wire == INSTANCE Bridge
Policy == INSTANCE PolicyPromotion
Pool == INSTANCE WorkerPool
Master == INSTANCE ContractMaster
Quotes == INSTANCE QuoteStore

ASSUME ComponentsAssumption ==
  /\ Stream!SupervisorAssumption /\ Store!LinesAssumption
  /\ Wire!BridgeAssumption /\ Policy!PolicyAssumption
  /\ Pool!PoolAssumption
  /\ Master!MasterAssumption /\ Quotes!QuotesAssumption

streamVars == <<at, health, attempt, stopped, cancelled>>
storeVars == <<lines, alive, lastHash, writing, kept>>
wireVars == <<sent, wire, rust, cpp>>
policyVars ==
  <<champion, challenger, active, shadow, outcomes, halted, promotions>>
poolVars == <<kind, owns, closing, call, waiting, running, outcome>>
masterVars == <<listed, contracts, refresh, floor>>
quoteVars == <<now, latest, known, feed, clocked, quotes, ask, settled>>
all == <<part, input, streamVars, storeVars, wireVars, policyVars, poolVars,
         masterVars, quoteVars>>

-----------------------------------------------------------------------------
(* Inputs of the algorithms *)

Number(value) == [isNumber |-> TRUE, value |-> value]
NotANumber == [isNumber |-> FALSE, value |-> NaN]
Default == [order |-> {200}, open |-> {300}, fraction |-> {2}]
Environments ==
  {[order |-> order, open |-> open, fraction |-> Number({2})] :
     order \in {NotANumber} \cup
               {Number(x) : x \in {{-1}, Zero, {100}, {Infinity}, NaN}},
     open \in {NotANumber, Number({Infinity}), Number(NaN)}}
Snapshots ==
  [equity : {Zero, {10}}, open : {Zero, {100}, {300}},
   loss : {Zero, {20}, {21}, {Infinity}}, kill : BOOLEAN]
GateInputs ==
  [algorithm : {"gate"}, env : Environments, snapshot : Snapshots,
   price : {NaN, Zero, {1}, {2}, {Infinity}}, quantity : {0, 1, 2},
   multiplier : {10, 100, 200}]

QuoteInputs ==
  {[symbol |-> symbol, bid |-> {4}, ask |-> {offer}, bid_size |-> size, ask_size |-> 2,
    timed |-> TRUE] : symbol \in {"X", "Y"}, offer \in {4, 5, 6}, size \in {1, 2}}
  \cup {[symbol |-> "X", bid |-> bid, ask |-> offer, bid_size |-> size, ask_size |-> 2,
         timed |-> timed] :
          bid \in {NaN, {4}}, offer \in {Zero, {3}, {4}, NaN}, size \in {0, 2},
          timed \in BOOLEAN}
RouteInputs ==
  [algorithm : {"route"}, quotes : UNION {[1..n -> QuoteInputs] : n \in 0..3},
   quantity : {1, 2}]

FoldInputs ==
  [algorithm : {"folds"},
   c : [n : 0..9, train_size : 0..4, test_size : 0..3, purge : 0..2,
        embargo : 0..3, step : 0..3]]

OfflineGate ==
  [supportParts |-> 1, parts |-> 2, minSupported |-> 1, maxPeriods |-> 2, maxFall |-> 1,
   worst |-> 1, turnover |-> 1, advantage |-> 1, unit |-> 3]
Good(state, reward, available) ==
  [state |-> state, action |-> 1, reward |-> {reward}, supported |-> TRUE,
   available |-> available]
Transitions ==
  {Good(state, reward, available) :
     state \in {"s", "t"}, reward \in {-1, 1}, available \in {1, 2}}
  \cup {[Good("s", 1, 1) EXCEPT !.action = 0], [Good("t", 0, 1) EXCEPT !.action = 0],
        [Good("s", 1, 1) EXCEPT !.reward = {}], [Good("s", 1, 1) EXCEPT !.supported = FALSE]}
OfflineInputs ==
  [algorithm : {"offline"}, transitions : UNION {[1..n -> Transitions] : n \in 1..3},
   p : {[s |-> 0, t |-> 1]}, q : {[s |-> 1, t |-> 0], [s |-> 1, t |-> 1]}]

RowInputs ==
  [algorithm : {"rows"},
   rows : UNION {[1..n -> [asof : 1..3, available : 1..3]] : n \in 0..3}]

Intents ==
  [symbol : {"X"}, side : {"buy", "sell"}, quantity : {1}, limit : {{}, {3}, {4}}]
  \cup {[symbol |-> "Y", side |-> "buy", quantity |-> 2, limit |-> {}]}
BacktestInputs ==
  [algorithm : {"backtest"},
   b : {[times |-> <<1, 2>>, cash |-> 0, slip |-> slip, commission |-> 1, scale |-> 10,
         multiplier |-> 2,
         quotes |-> << <<[symbol |-> "X", bid |-> 3, ask |-> 4]>> \o more,
                       <<[symbol |-> "X", bid |-> bid, ask |-> 5]>> >>,
         intents |-> <<first, second>>] :
           slip \in {0, 1, 11}, bid \in {2, 5},
           more \in {<< >>, <<[symbol |-> "X", bid |-> 3, ask |-> 3]>>},
           first \in UNION {[1..n -> Intents] : n \in 0..2},
           second \in UNION {[1..n -> Intents] : n \in 0..1}}]

(* The inputs: what is finite is below Infinity, and the unit of the gate  *)
(* keeps every wealth whole.                                               *)
ASSUME InputsAssumption ==
  /\ 300 < Infinity
  /\ \A n \in 0..3 : \A r \in [1..n -> {-1, 0, 1}] : Wealth(r, OfflineGate.unit) \in Int

Inputs ==
  BacktestInputs \cup GateInputs \cup RouteInputs \cup FoldInputs \cup RowInputs \cup OfflineInputs

-----------------------------------------------------------------------------
Init ==
  /\ part \in {"stream", "store", "bridge", "policy", "pool", "master", "quotes", "input"}
  /\ input \in IF part = "input" THEN Inputs ELSE {[algorithm |-> "none"]}
  /\ Stream!Init /\ Store!Init /\ Wire!Init /\ Policy!Init /\ Pool!Init
  /\ Master!Init /\ Quotes!Init
  /\ part = "pool" \/ (kind = "engine" /\ owns)

StreamStep(A) ==
  part = "stream" /\ A
    /\ UNCHANGED <<part, input, storeVars, wireVars, policyVars, poolVars,
                   masterVars, quoteVars>>
StoreStep ==
  part = "store" /\ Store!Next
    /\ UNCHANGED <<part, input, streamVars, wireVars, policyVars, poolVars,
                   masterVars, quoteVars>>
BridgeStep ==
  part = "bridge" /\ Wire!Next
    /\ UNCHANGED <<part, input, streamVars, storeVars, policyVars, poolVars,
                   masterVars, quoteVars>>
PolicyStep ==
  part = "policy" /\ Policy!Next
    /\ UNCHANGED <<part, input, streamVars, storeVars, wireVars, poolVars,
                   masterVars, quoteVars>>
PoolStep(A) ==
  part = "pool" /\ A
    /\ UNCHANGED <<part, input, streamVars, storeVars, wireVars, policyVars,
                   masterVars, quoteVars>>
MasterStep ==
  part = "master" /\ Master!Next
    /\ UNCHANGED <<part, input, streamVars, storeVars, wireVars, policyVars,
                   poolVars, quoteVars>>
QuotesStep ==
  part = "quotes" /\ Quotes!Next
    /\ UNCHANGED <<part, input, streamVars, storeVars, wireVars, policyVars,
                   poolVars, masterVars>>

Next ==
  \/ StreamStep(Stream!Next) \/ StoreStep \/ BridgeStep \/ PolicyStep
  \/ PoolStep(Pool!Next) \/ MasterStep \/ QuotesStep

Fairness ==
  /\ WF_all(StreamStep(Stream!Loop))
  /\ WF_all(StreamStep(Stream!Wake))
  /\ WF_all(StreamStep(Stream!Attempt))
  /\ \A c \in Clients : WF_all(PoolStep(Pool!Step(c)))
  /\ \A f \in Pool!Futures : WF_all(PoolStep(Pool!AgentEnds(f)))
  /\ WF_all(PoolStep(Pool!Work))
  /\ WF_all(PoolStep(Pool!Joined))

Spec == Init /\ [][Next]_all /\ Fairness

-----------------------------------------------------------------------------
(* run() of the supervisor comes to an end unless streams keep coming up,  *)
(* and after stop() unless one is served for good.                         *)
StreamRunEnds == part = "stream" => Stream!RunEnds

(* What append() of the execution state store returned is a hash chain     *)
(* that only grows at its end, whatever raises or dies; verify_chain tells *)
(* exactly when a record written by an append() that raised is out of it;  *)
(* and the feedback of a cutoff loses nothing but the file to a last line  *)
(* without its line feed.                                                  *)
StoreIsHashChain ==
  Store!IsHashChain /\ [][Store!VerifyTells']_(Store!vars) /\ Store!FeedbackStays

(* Both readers of the bridge accept the same frames, as they were sent,   *)
(* at most once and in order, and refuse none that is ahead of them all,   *)
(* also after a gap in the sequence.                                       *)
BridgeInOrder == Wire!FramesInOrder

(* Exactly the champion trades and exactly the others shadow it, and a     *)
(* promotion is not undone by the next without a new event.                *)
OnePolicyTrades == Policy!OneActivePolicy /\ Policy!PromotionSettles

(* The gates and the routers of the three languages decide alike.          *)
NativeAgrees ==
  /\ input.algorithm = "gate" =>
       GatesAgree(Limits(input.env, Default), input.snapshot, input.price,
                  input.quantity, input.multiplier)
  /\ input.algorithm = "route" => RoutesAgree(input.quotes, "X", input.quantity)

(* Walk-forward folds train on nothing that is tested or embargoed,        *)
(* checked rows hold nothing that was not known at their time, a backtest  *)
(* is the same whatever comes after it, and the offline gate decides on    *)
(* what was known and never for both of two policies.                      *)
ResearchLeaksNothing ==
  /\ input.algorithm = "folds" => NoLeak(input.c)
  /\ input.algorithm = "rows" => PrefixesKnown(input.rows)
  /\ input.algorithm = "backtest" => BacktestSound(input.b)
  /\ input.algorithm = "offline" =>
       OfflineSound(OfflineGate, input.transitions, input.p, input.q, 1)

(* Agents fail alone, a call of infer() has one result of each, and infer()*)
(* and close() end when the agents do.                                     *)
PoolAnswers == []Pool!FailuresIsolated /\ (part = "pool" => Pool!PoolEnds)

(* No refresh puts the contract master behind one that went through, and   *)
(* the cache of quotes falls behind nothing it held when all had arrived.  *)
MarketSettles == Master!MasterKeepsUp /\ Quotes!CacheSettles

MCEvents ==
  {[time |-> 1, available |-> 1, realized |-> TRUE],
   [time |-> 2, available |-> 1, realized |-> TRUE],
   [time |-> 1, available |-> 2, realized |-> TRUE],
   [time |-> 1, available |-> 1, realized |-> FALSE]}
MCAgents == <<"b", "a">>
MCSorted == <<"a", "b">>
MCRewards == {-1, 0, 1}
MCPages == << <<"X", "Y">>, <<"Z">> >>
=============================================================================
