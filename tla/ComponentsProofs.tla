-------------------------- MODULE ComponentsProofs --------------------------
(***************************************************************************)
(* Theorems about the components of MCComponents, for all values of the    *)
(* constants.                                                              *)
(***************************************************************************)
EXTENDS MCComponents, Sums, FiniteSetTheorems, TLAPS

-----------------------------------------------------------------------------
(* THE PROMOTED POLICY (PolicyPromotion) *)

(* The wealth two policies are compared by. *)
Worth(p) == Policy!Wealth(outcomes[p], 2 * MaxOutcomes)

PolicyTypes ==
  /\ champion \in Policies
  /\ challenger \subseteq Policies
  /\ active \in [Policies -> BOOLEAN]
  /\ shadow \in [Policies -> BOOLEAN]
  /\ promotions \in {0, 1}

OutcomesFit ==
  /\ outcomes \in [Policies -> Seq(Rewards)]
  /\ \A p \in Policies : Len(outcomes[p]) <= MaxOutcomes

(* After a promotion the only challenger is the champion it replaced, and  *)
(* that one is worth less by the margin.                                   *)
Settled ==
  promotions = 1 =>
    \E q \in Policies :
      challenger = {q} /\ Worth(champion) - Worth(q) >= MinAdvantage

PolicyInv ==
  /\ PolicyTypes
  /\ OutcomesFit
  /\ Policy!OneActivePolicy
  /\ Settled

(* The worth of a policy is a number. *)
LEMMA WorthIsNumber ==
  ASSUME OutcomesFit, NEW p \in Policies
  PROVE  Worth(p) \in Int
<1>1. /\ MaxOutcomes \in Nat
      /\ \A n \in 0..MaxOutcomes :
           \A seq \in [1..n -> Rewards] : Policy!Wealth(seq, 2 * MaxOutcomes) \in Int
  BY ComponentsAssumption DEF Policy!PolicyAssumption
<1>2. /\ outcomes[p] \in Seq(Rewards)
      /\ Len(outcomes[p]) <= MaxOutcomes
  BY DEF OutcomesFit
<1>3. Len(outcomes[p]) \in 0..MaxOutcomes
  BY <1>1, <1>2
<1>4. outcomes[p] \in [1..Len(outcomes[p]) -> Rewards]
  BY <1>2
<1> QED BY <1>1, <1>3, <1>4 DEF Worth

LEMMA PolicyInit == Init => PolicyInv
<1> SUFFICES ASSUME Init PROVE PolicyInv
  OBVIOUS
<1>1. First \in Policies /\ MaxOutcomes \in Nat
  BY ComponentsAssumption DEF Policy!PolicyAssumption
<1>2. Policy!Init
  BY DEF Init
<1>3. PolicyTypes
  BY <1>1, <1>2 DEF PolicyTypes, Policy!Init
<1>4. OutcomesFit
  <2>1. << >> \in Seq(Rewards) /\ Len(<< >>) = 0
    OBVIOUS
  <2> QED BY <1>1, <1>2, <2>1 DEF OutcomesFit, Policy!Init
<1>5. Policy!OneActivePolicy
  BY <1>1, <1>2 DEF Policy!OneActivePolicy, Policy!Init
<1>6. Settled
  BY <1>2 DEF Settled, Policy!Init
<1> QED BY <1>3, <1>4, <1>5, <1>6 DEF PolicyInv

LEMMA LoadKeeps ==
  ASSUME PolicyInv, NEW p \in Policies, Policy!LoadChallenger(p)
  PROVE  PolicyInv'
<1>1. PolicyTypes'
  BY DEF PolicyInv, PolicyTypes, Policy!LoadChallenger
<1>2. OutcomesFit'
  BY DEF PolicyInv, OutcomesFit, Policy!LoadChallenger
<1>3. Policy!OneActivePolicy'
  BY DEF PolicyInv, PolicyTypes, Policy!OneActivePolicy, Policy!LoadChallenger
<1>4. Settled'
  BY DEF Settled, Policy!LoadChallenger
<1> QED BY <1>1, <1>2, <1>3, <1>4 DEF PolicyInv

LEMMA OutcomeKeeps ==
  ASSUME PolicyInv, NEW p \in Policies, Policy!RecordOutcome(p)
  PROVE  PolicyInv'
<1>1. PolicyTypes'
  BY DEF PolicyInv, PolicyTypes, Policy!RecordOutcome
<1>2. OutcomesFit'
  <2>1. PICK g \in Rewards : outcomes' = [outcomes EXCEPT ![p] = Append(@, g)]
    BY DEF Policy!RecordOutcome
  <2>2. /\ outcomes \in [Policies -> Seq(Rewards)]
        /\ \A q \in Policies : Len(outcomes[q]) <= MaxOutcomes
        /\ Len(outcomes[p]) < MaxOutcomes
    BY DEF PolicyInv, OutcomesFit, Policy!RecordOutcome
  <2>3. /\ Append(outcomes[p], g) \in Seq(Rewards)
        /\ Len(Append(outcomes[p], g)) = Len(outcomes[p]) + 1
    BY <2>2
  <2>4. MaxOutcomes \in Nat /\ Len(outcomes[p]) \in Nat
    BY <2>2, ComponentsAssumption DEF Policy!PolicyAssumption
  <2> QED BY <2>1, <2>2, <2>3, <2>4 DEF OutcomesFit
<1>3. Policy!OneActivePolicy'
  BY DEF PolicyInv, PolicyTypes, Policy!OneActivePolicy, Policy!RecordOutcome
<1>4. Settled'
  BY DEF Settled, Policy!RecordOutcome
<1> QED BY <1>1, <1>2, <1>3, <1>4 DEF PolicyInv

(* Champion and challenger change places, with their flags. *)
LEMMA SwapKeeps ==
  ASSUME PolicyInv, NEW p \in Policies, challenger = {p},
         champion' = p, challenger' = {champion},
         active' = [active EXCEPT ![p] = TRUE, ![champion] = FALSE],
         shadow' = [shadow EXCEPT ![p] = FALSE, ![champion] = TRUE]
  PROVE  /\ champion' \in Policies /\ challenger' \subseteq Policies
         /\ active' \in [Policies -> BOOLEAN] /\ shadow' \in [Policies -> BOOLEAN]
         /\ Policy!OneActivePolicy'
BY DEF PolicyInv, PolicyTypes, Policy!OneActivePolicy

(* A promotion follows no other: what the last one replaced is not better  *)
(* by the margin.                                                          *)
LEMMA PromoteKeeps ==
  ASSUME PolicyInv, NEW p \in Policies, Policy!Promote(p)
  PROVE  PolicyInv'
<1>1. /\ champion' \in Policies /\ challenger' \subseteq Policies
      /\ active' \in [Policies -> BOOLEAN] /\ shadow' \in [Policies -> BOOLEAN]
      /\ Policy!OneActivePolicy'
  BY SwapKeeps DEF Policy!Promote
<1>2. MinAdvantage \in Nat \ {0}
  BY ComponentsAssumption DEF Policy!PolicyAssumption
<1>3. champion \in Policies /\ promotions \in {0, 1} /\ OutcomesFit
  BY DEF PolicyInv, PolicyTypes
<1>4. Worth(p) \in Int /\ Worth(champion) \in Int
  BY <1>3, WorthIsNumber
<1>5. Worth(p) - Worth(champion) >= MinAdvantage
  BY DEF Policy!Promote, Policy!Safe, Worth
<1>6. promotions # 1
  <2> SUFFICES ASSUME promotions = 1 PROVE FALSE
    OBVIOUS
  <2>1. Worth(champion) - Worth(p) >= MinAdvantage
    BY DEF PolicyInv, Settled, Policy!Promote
  <2> QED BY <1>2, <1>4, <1>5, <2>1
<1>7. promotions' = 1 /\ outcomes' = outcomes
  BY <1>3, <1>6 DEF Policy!Promote
<1>8. OutcomesFit'
  BY <1>3, <1>7 DEF OutcomesFit
<1>9. Settled'
  <2>1. champion' = p /\ challenger' = {champion}
    BY DEF Policy!Promote
  <2>2. Worth(p)' = Worth(p) /\ Worth(champion)' = Policy!Wealth(outcomes[champion'], 2 * MaxOutcomes)
    BY <1>7 DEF Worth
  <2>3. Policy!Wealth(outcomes[p], 2 * MaxOutcomes) - Policy!Wealth(outcomes[champion], 2 * MaxOutcomes)
          >= MinAdvantage
    BY <1>5 DEF Worth
  <2> QED BY <1>3, <1>7, <2>1, <2>3 DEF Settled, Worth
<1> QED BY <1>1, <1>7, <1>8, <1>9 DEF PolicyInv, PolicyTypes

LEMMA RollbackKeeps ==
  ASSUME PolicyInv, NEW p \in Policies, Policy!Rollback(p)
  PROVE  PolicyInv'
<1>1. /\ champion' \in Policies /\ challenger' \subseteq Policies
      /\ active' \in [Policies -> BOOLEAN] /\ shadow' \in [Policies -> BOOLEAN]
      /\ Policy!OneActivePolicy'
  BY SwapKeeps DEF Policy!Rollback
<1>2. promotions' = 0 /\ OutcomesFit'
  BY DEF PolicyInv, OutcomesFit, Policy!Rollback
<1> QED BY <1>1, <1>2 DEF PolicyInv, PolicyTypes, Settled

LEMMA PolicyQuiet ==
  ASSUME PolicyInv, UNCHANGED policyVars
  PROVE  PolicyInv'
BY DEF PolicyInv, PolicyTypes, OutcomesFit, Settled, Worth, policyVars,
       Policy!OneActivePolicy

LEMMA PolicyNext == PolicyInv /\ [Next]_all => PolicyInv'
<1> SUFFICES ASSUME PolicyInv, [Next]_all PROVE PolicyInv'
  OBVIOUS
<1>1. CASE PolicyStep
  <2>1. PICK p \in Policies :
          \/ Policy!LoadChallenger(p) \/ Policy!RecordOutcome(p)
          \/ Policy!Promote(p) \/ Policy!Rollback(p)
    BY <1>1 DEF PolicyStep, Policy!Next
  <2> QED BY <2>1, LoadKeeps, OutcomeKeeps, PromoteKeeps, RollbackKeeps
<1>2. CASE ~PolicyStep
  <2>1. UNCHANGED policyVars
    BY <1>2 DEF Next, StreamStep, StoreStep, BridgeStep, PoolStep, MasterStep, QuotesStep, all
  <2> QED BY <2>1, PolicyQuiet
<1> QED BY <1>1, <1>2

(* Exactly the champion trades and exactly the others shadow it, whatever  *)
(* is loaded, dropped, promoted and rolled back; and a promotion is not    *)
(* followed by another without a new event, as the margin between two      *)
(* policies cannot be positive both ways.                                  *)
THEOREM OnePolicy == Spec => []OnePolicyTrades
<1>1. PolicyInv => OnePolicyTrades
  BY DEF PolicyInv, PolicyTypes, OnePolicyTrades, Policy!PromotionSettles
<1> QED BY <1>1, PolicyInit, PolicyNext, PTL DEF Spec

-----------------------------------------------------------------------------
(* THE CACHE OF QUOTES (QuoteStore) *)

QuoteTypes ==
  /\ now \in Nat
  /\ latest \in [Symbols -> [time : Nat, usable : BOOLEAN]]
  /\ feed \in Seq([symbol : Symbols, time : Nat, usable : BOOLEAN])
  /\ quotes \in [Symbols -> Nat]
  /\ settled \in [Symbols -> Nat]
  /\ ask \in [Calls ->
       [at : {"idle"}] \cup [at : {"asking"}, symbol : Symbols]
       \cup [at : {"answered"}, symbol : Symbols,
             quote : [time : Nat, usable : BOOLEAN]]]

(* What is cached or on its way is at least what was settled, and no later *)
(* than the latest quote there is.                                         *)
Between(s, time) == settled[s] <= time /\ time <= latest[s].time
QuotesInOrder ==
  /\ \A s \in Symbols : latest[s].time <= now /\ Between(s, quotes[s])
  /\ \A i \in DOMAIN feed : Between(feed[i].symbol, feed[i].time)
  /\ \A c \in Calls :
       ask[c].at = "answered" => Between(ask[c].symbol, ask[c].quote.time)

QuoteInv == QuoteTypes /\ QuotesInOrder

LEMMA QuoteInit == Init => QuoteInv
<1> SUFFICES ASSUME Init PROVE QuoteInv
  OBVIOUS
<1>1. Quotes!Init
  BY DEF Init
<1>2. << >> \in Seq([symbol : Symbols, time : Nat, usable : BOOLEAN]) /\ DOMAIN << >> = {}
  OBVIOUS
<1> QED BY <1>1, <1>2 DEF QuoteInv, QuoteTypes, QuotesInOrder, Between, Quotes!Init, Quotes!Idle

(* Time passes, and an event joins the feed or is lost. *)
LEMMA TickKeeps ==
  ASSUME QuoteInv, Quotes!Tick
  PROVE  QuoteInv'
<1> DEFINE Event == [symbol : Symbols, time : Nat, usable : BOOLEAN]
<1>1. /\ now' = now + 1
      /\ UNCHANGED <<quotes, ask, settled>>
      /\ now \in Nat /\ quotes \in [Symbols -> Nat] /\ settled \in [Symbols -> Nat]
      /\ latest \in [Symbols -> [time : Nat, usable : BOOLEAN]]
      /\ feed \in Seq(Event)
  BY DEF QuoteInv, QuoteTypes, Quotes!Tick
<1>2. CASE UNCHANGED <<latest, feed>>
  BY <1>1, <1>2 DEF QuoteInv, QuoteTypes, QuotesInOrder, Between
<1>3. ASSUME NEW s \in Symbols, NEW usable \in BOOLEAN,
             latest' = [latest EXCEPT ![s] = [time |-> now', usable |-> usable]],
             \/ UNCHANGED feed
             \/ feed' = Append(feed, [symbol |-> s, time |-> now', usable |-> usable])
      PROVE  QuoteInv'
  <2> DEFINE event == [symbol |-> s, time |-> now', usable |-> usable]
  <2>1. /\ latest' \in [Symbols -> [time : Nat, usable : BOOLEAN]]
        /\ event \in Event
    BY <1>1, <1>3
  <2>2. /\ feed \in Seq(Event) /\ event \in Event
        /\ feed' = feed \/ feed' = Append(feed, event)
    BY <1>1, <1>3, <2>1
  <2>3. \A q \in Symbols :
           /\ latest'[q].time \in Nat /\ latest'[q].time <= now'
           /\ latest[q].time \in Nat /\ latest[q].time <= latest'[q].time
    BY <1>1, <1>3 DEF QuoteInv, QuotesInOrder
  <2>4. latest'[s].time = now'
    BY <1>1, <1>3
  <2>5. \A q \in Symbols, time \in Nat : Between(q, time) => Between(q, time)'
    BY <1>1, <2>3 DEF Between
  <2>6. QuoteTypes'
    <3> HIDE DEF event, Event
    <3>1. feed' \in Seq(Event)
      BY <2>2
    <3> USE DEF Event
    <3> QED BY <1>1, <2>1, <3>1 DEF QuoteInv, QuoteTypes
  <2>7. \A q \in Symbols : latest'[q].time <= now' /\ Between(q, quotes[q])'
    BY <1>1, <2>3, <2>5 DEF QuoteInv, QuotesInOrder
  <2>8. \A i \in DOMAIN feed' : Between(feed[i].symbol, feed[i].time)'
    <3> SUFFICES ASSUME NEW i \in DOMAIN feed' PROVE Between(feed[i].symbol, feed[i].time)'
      OBVIOUS
    <3>1. CASE i \in DOMAIN feed /\ feed'[i] = feed[i]
      <4> HIDE DEF Event
      <4>1. feed[i] \in Event /\ Between(feed[i].symbol, feed[i].time)
        BY <1>1, <3>1 DEF QuoteInv, QuotesInOrder
      <4> USE DEF Event
      <4> QED BY <2>5, <3>1, <4>1 DEF Between
    <3>2. CASE feed'[i] = event
      <4>1. settled[s] \in Nat /\ settled[s] <= latest[s].time
        BY <1>1, <2>3 DEF QuoteInv, QuotesInOrder, Between
      <4>2. settled[s] <= now' /\ now' <= latest'[s].time
        BY <1>1, <2>3, <2>4, <4>1
      <4> QED BY <1>1, <3>2, <4>2 DEF Between
    <3>3. \/ i \in DOMAIN feed /\ feed'[i] = feed[i]
          \/ feed'[i] = event
      <4> HIDE DEF event, Event
      <4> QED BY <2>2
    <3> QED BY <3>1, <3>2, <3>3
  <2>9. \A c \in Calls :
           (ask[c].at = "answered")' => Between(ask[c].symbol, ask[c].quote.time)'
    <3> SUFFICES ASSUME NEW c \in Calls, ask[c].at = "answered"
                 PROVE  Between(ask[c].symbol, ask[c].quote.time)'
      BY <1>1
    <3>1. ask[c].symbol \in Symbols /\ ask[c].quote.time \in Nat
      BY DEF QuoteInv, QuoteTypes
    <3>2. Between(ask[c].symbol, ask[c].quote.time)
      BY DEF QuoteInv, QuotesInOrder
    <3> QED BY <1>1, <2>5, <3>1, <3>2
  <2> QED BY <2>6, <2>7, <2>8, <2>9 DEF QuoteInv, QuotesInOrder
<1> QED BY <1>2, <1>3 DEF Quotes!Tick

(* A quote in order is recorded or not, and what has nothing more on its   *)
(* way is settled.                                                         *)
LEMMA RecordKeeps ==
  ASSUME QuoteInv, NEW s \in Symbols, NEW quote, quote.time \in Nat, Between(s, quote.time),
         Quotes!Recorded(s, quote) \/ UNCHANGED quotes,
         Quotes!Settle, UNCHANGED <<now, latest>>,
         feed' \in Seq([symbol : Symbols, time : Nat, usable : BOOLEAN]),
         \A i \in DOMAIN feed' : \E j \in DOMAIN feed : feed'[i] = feed[j],
         ask' \in [Calls ->
           [at : {"idle"}] \cup [at : {"asking"}, symbol : Symbols]
           \cup [at : {"answered"}, symbol : Symbols,
                 quote : [time : Nat, usable : BOOLEAN]]],
         \A c \in Calls : ask'[c].at = "answered" => ask'[c] = ask[c]
  PROVE  QuoteInv'
<1>1. /\ quotes \in [Symbols -> Nat] /\ settled \in [Symbols -> Nat]
      /\ latest \in [Symbols -> [time : Nat, usable : BOOLEAN]]
  BY DEF QuoteInv, QuoteTypes
<1>2. /\ quotes' \in [Symbols -> Nat]
      /\ \A q \in Symbols : settled[q] <= quotes'[q] /\ quotes'[q] <= latest[q].time
  BY <1>1 DEF Quotes!Recorded, QuoteInv, QuotesInOrder, Between
<1>3. \A q \in Symbols :
         settled'[q] = IF Quotes!Pending(q)' THEN settled[q] ELSE quotes'[q]
  BY DEF Quotes!Settle
<1>4. settled' \in [Symbols -> Nat]
  BY <1>1, <1>2 DEF Quotes!Settle
<1>5. QuoteTypes'
  BY <1>2, <1>4 DEF QuoteInv, QuoteTypes
<1>6. \A q \in Symbols : latest'[q].time <= now' /\ Between(q, quotes[q])'
  <2> SUFFICES ASSUME NEW q \in Symbols PROVE latest'[q].time <= now' /\ Between(q, quotes[q])'
    OBVIOUS
  <2>1. latest[q].time <= now
    BY DEF QuoteInv, QuotesInOrder
  <2>2. /\ settled'[q] \in {settled[q], quotes'[q]}
        /\ settled[q] \in Nat /\ quotes'[q] \in Nat
    BY <1>1, <1>2, <1>3
  <2> QED BY <1>2, <2>1, <2>2 DEF Between
<1>7. \A i \in DOMAIN feed' : Between(feed[i].symbol, feed[i].time)'
  <2> SUFFICES ASSUME NEW i \in DOMAIN feed' PROVE Between(feed[i].symbol, feed[i].time)'
    OBVIOUS
  <2>1. PICK j \in DOMAIN feed : feed'[i] = feed[j]
    OBVIOUS
  <2>2. Between(feed[j].symbol, feed[j].time)
    BY DEF QuoteInv, QuotesInOrder
  <2>3. PICK s1 \in Symbols : s1 = feed'[i].symbol
    <3> DEFINE Event == [symbol : Symbols, time : Nat, usable : BOOLEAN]
    <3>1. feed' \in Seq(Event)
      OBVIOUS
    <3> HIDE DEF Event
    <3>2. feed'[i] \in Event
      BY <3>1
    <3> QED BY <3>2 DEF Event
  <2>4. Quotes!Pending(s1)'
    BY <2>3 DEF Quotes!Pending
  <2>5. settled'[s1] = settled[s1]
    BY <1>3, <2>4
  <2> QED BY <2>1, <2>2, <2>3, <2>5 DEF Between
<1>8. \A c \in Calls :
         (ask[c].at = "answered")' => Between(ask[c].symbol, ask[c].quote.time)'
  <2> SUFFICES ASSUME NEW c \in Calls, ask'[c].at = "answered"
               PROVE  Between(ask[c].symbol, ask[c].quote.time)'
    OBVIOUS
  <2>1. PICK s1 \in Symbols : ask'[c] = ask[c] /\ ask'[c].symbol = s1
    OBVIOUS
  <2>2. Between(ask[c].symbol, ask[c].quote.time)
    BY <2>1 DEF QuoteInv, QuotesInOrder
  <2>3. Quotes!Pending(s1)'
    BY <2>1 DEF Quotes!Pending
  <2>4. settled'[s1] = settled[s1]
    BY <1>3, <2>3
  <2> QED BY <2>1, <2>2, <2>4 DEF Between
<1> QED BY <1>5, <1>6, <1>7, <1>8 DEF QuoteInv, QuotesInOrder

LEMMA HandleKeeps ==
  ASSUME QuoteInv, Quotes!Handle
  PROVE  QuoteInv'
<1> DEFINE event == Head(feed)
           Event == [symbol : Symbols, time : Nat, usable : BOOLEAN]
<1>1. /\ feed \in Seq(Event) /\ feed # << >> /\ feed' = Tail(feed)
      /\ UNCHANGED <<now, latest, ask>>
  BY DEF QuoteInv, QuoteTypes, Quotes!Handle
<1>2. /\ 1 \in DOMAIN feed /\ event = feed[1] /\ event \in Event
      /\ feed' \in Seq(Event)
      /\ \A i \in DOMAIN feed' : i + 1 \in DOMAIN feed /\ feed'[i] = feed[i + 1]
  <2> HIDE DEF Event
  <2> QED BY <1>1
<1>3. event.symbol \in Symbols /\ event.time \in Nat /\ Between(event.symbol, event.time)
  BY <1>2 DEF QuoteInv, QuotesInOrder
<1>4. Quotes!Recorded(event.symbol, event) \/ UNCHANGED quotes
  BY DEF Quotes!Handle
<1>5. /\ ask' \in [Calls ->
           [at : {"idle"}] \cup [at : {"asking"}, symbol : Symbols]
           \cup [at : {"answered"}, symbol : Symbols,
                 quote : [time : Nat, usable : BOOLEAN]]]
      /\ \A c \in Calls : ask'[c] = ask[c]
  BY <1>1 DEF QuoteInv, QuoteTypes
<1>6. Quotes!Settle
  BY DEF Quotes!Handle
<1>7. \A i \in DOMAIN feed' : \E j \in DOMAIN feed : feed'[i] = feed[j]
  BY <1>2
<1> HIDE DEF event
<1> QED BY <1>1, <1>2, <1>3, <1>4, <1>5, <1>6, <1>7, RecordKeeps

LEMMA AnswerKeeps ==
  ASSUME QuoteInv, NEW c \in Calls, Quotes!Answer(c) \/ Quotes!Fails(c)
  PROVE  QuoteInv'
<1>1. /\ ask \in [Calls ->
           [at : {"idle"}] \cup [at : {"asking"}, symbol : Symbols]
           \cup [at : {"answered"}, symbol : Symbols,
                 quote : [time : Nat, usable : BOOLEAN]]]
      /\ ask' = [ask EXCEPT ![c] = Quotes!Idle]
      /\ Quotes!Settle /\ UNCHANGED <<now, latest, feed>>
      /\ feed \in Seq([symbol : Symbols, time : Nat, usable : BOOLEAN])
  BY DEF QuoteInv, QuoteTypes, Quotes!Answer, Quotes!Fails
<1>2. /\ ask' \in [Calls ->
           [at : {"idle"}] \cup [at : {"asking"}, symbol : Symbols]
           \cup [at : {"answered"}, symbol : Symbols,
                 quote : [time : Nat, usable : BOOLEAN]]]
      /\ \A d \in Calls : ask'[d].at = "answered" => ask'[d] = ask[d]
  BY <1>1 DEF Quotes!Idle
<1>3. CASE Quotes!Answer(c)
  <2>1. /\ ask[c].at = "answered" /\ Quotes!Recorded(ask[c].symbol, ask[c].quote)
    BY <1>3 DEF Quotes!Answer
  <2>2. ask[c].symbol \in Symbols /\ ask[c].quote.time \in Nat
    BY <1>1, <2>1
  <2>3. Between(ask[c].symbol, ask[c].quote.time)
    BY <2>1 DEF QuoteInv, QuotesInOrder
  <2> QED BY <1>1, <1>2, <2>1, <2>2, <2>3, RecordKeeps
<1>4. CASE Quotes!Fails(c)
  <2>1. ask[c].at = "asking" /\ UNCHANGED quotes
    BY <1>4 DEF Quotes!Fails
  <2>2. ask[c].symbol \in Symbols
    BY <1>1, <2>1
  <2> DEFINE same == [time |-> quotes[ask[c].symbol]]
  <2>3. same.time \in Nat /\ Between(ask[c].symbol, same.time)
    BY <2>2 DEF QuoteInv, QuoteTypes, QuotesInOrder
  <2> HIDE DEF same
  <2> QED BY <1>1, <1>2, <2>1, <2>2, <2>3, RecordKeeps
<1> QED BY <1>3, <1>4

LEMMA AskKeeps ==
  ASSUME QuoteInv, NEW c \in Calls,
         Quotes!Serve(c) \/ \E s \in Symbols : Quotes!GetQuote(c, s)
  PROVE  QuoteInv'
<1>1. UNCHANGED <<now, latest, feed, quotes, settled>>
  BY DEF Quotes!Serve, Quotes!GetQuote
<1>2. /\ QuoteTypes'
      /\ \A d \in Calls :
           ask'[d].at = "answered" =>
             \/ ask'[d] = ask[d]
             \/ ask'[d].symbol \in Symbols /\ ask'[d].quote = latest[ask'[d].symbol]
  <2>1. CASE Quotes!Serve(c)
    BY <1>1, <2>1 DEF QuoteInv, QuoteTypes, Quotes!Serve
  <2>2. CASE \E s \in Symbols : Quotes!GetQuote(c, s)
    <3>1. PICK s \in Symbols :
            ask' \in {ask, [ask EXCEPT ![c] = [at |-> "asking", symbol |-> s]]}
      BY <2>2 DEF Quotes!GetQuote
    <3>2. /\ ask \in [Calls ->
               [at : {"idle"}] \cup [at : {"asking"}, symbol : Symbols]
               \cup [at : {"answered"}, symbol : Symbols,
                     quote : [time : Nat, usable : BOOLEAN]]]
      BY DEF QuoteInv, QuoteTypes
    <3>3. /\ ask' \in [Calls ->
               [at : {"idle"}] \cup [at : {"asking"}, symbol : Symbols]
               \cup [at : {"answered"}, symbol : Symbols,
                     quote : [time : Nat, usable : BOOLEAN]]]
          /\ \A d \in Calls : ask'[d].at = "answered" => ask'[d] = ask[d]
      BY <3>1, <3>2
    <3> QED BY <1>1, <3>3 DEF QuoteInv, QuoteTypes
  <2> QED BY <2>1, <2>2
<1>3. \A s \in Symbols : Between(s, latest[s].time)
  BY DEF QuoteInv, QuoteTypes, QuotesInOrder, Between
<1> QED BY <1>1, <1>2, <1>3 DEF QuoteInv, QuotesInOrder, Between

LEMMA QuotesQuiet ==
  ASSUME QuoteInv, UNCHANGED <<now, latest, feed, quotes, ask, settled>>
  PROVE  QuoteInv'
BY DEF QuoteInv, QuoteTypes, QuotesInOrder, Between

LEMMA QuotesNext == QuoteInv /\ [Next]_all => QuoteInv'
<1> SUFFICES ASSUME QuoteInv, [Next]_all PROVE QuoteInv'
  OBVIOUS
<1>1. CASE QuotesStep
  <2>1. \/ Quotes!Tick \/ Quotes!Handle
        \/ UNCHANGED <<now, latest, feed, quotes, ask, settled>>
        \/ \E c \in Calls :
             \/ Quotes!Answer(c) \/ Quotes!Fails(c)
             \/ Quotes!Serve(c) \/ \E s \in Symbols : Quotes!GetQuote(c, s)
    BY <1>1 DEF QuotesStep, Quotes!Next, Quotes!AttachClock, Quotes!Upsert
  <2> QED BY <2>1, TickKeeps, HandleKeeps, AnswerKeeps, AskKeeps, QuotesQuiet
<1>2. CASE ~QuotesStep
  <2>1. UNCHANGED quoteVars
    BY <1>2 DEF Next, StreamStep, StoreStep, BridgeStep, PolicyStep, PoolStep, MasterStep, all
  <2> QED BY <2>1, QuotesQuiet DEF quoteVars
<1> QED BY <1>1, <1>2

-----------------------------------------------------------------------------
(* THE CONTRACT MASTER (ContractMaster) *)

Row == [symbol : Master!Listing, version : Nat, row : Master!Rows]

MasterTypes ==
  /\ listed \in [Master!Listing -> [version : Nat, row : Master!Rows]]
  /\ contracts \in [Master!Listing -> Nat]
  /\ floor \in [Master!Listing -> Nat]
  /\ DOMAIN refresh = Tasks
  /\ \A t \in Tasks :
       /\ refresh[t] = [page |-> refresh[t].page, rows |-> refresh[t].rows,
                        since |-> refresh[t].since, alone |-> refresh[t].alone]
       /\ refresh[t].page \in 0..Len(Pages)
       /\ refresh[t].since \in [Master!Listing -> Nat]
       /\ refresh[t].page = 0 => refresh[t].rows = << >>

(* Rows that arrive are those of a page, no older than what was listed as  *)
(* the refresh began and than what another has made sure of.               *)
RowsFit(task) ==
  task.rows # << >> =>
    /\ DOMAIN task.rows = DOMAIN Pages[task.page]
    /\ \A i \in DOMAIN task.rows :
         /\ task.rows[i].symbol = Pages[task.page][i]
         /\ task.rows[i].version \in Nat
         /\ task.rows[i].version >= floor[Pages[task.page][i]]
         /\ task.rows[i].version >= task.since[Pages[task.page][i]]

(* A refresh that runs alone has brought in the pages before its own.      *)
PagesIn(t) ==
  refresh[t].page # 0 /\ refresh[t].alone =>
    /\ \A u \in Tasks \ {t} : refresh[u].page = 0
    /\ \A j \in DOMAIN Pages :
         j < refresh[t].page =>
           \A i \in DOMAIN Pages[j] : contracts[Pages[j][i]] >= refresh[t].since[Pages[j][i]]

MasterInv ==
  /\ MasterTypes
  /\ \A s \in Master!Listing : floor[s] <= contracts[s] /\ floor[s] <= listed[s].version
  /\ \A t \in Tasks :
       /\ RowsFit(refresh[t])
       /\ PagesIn(t)
       /\ \A s \in Master!Listing : refresh[t].since[s] <= listed[s].version

(* The symbols are those of the pages. *)
LEMMA PagesOfSymbols ==
  /\ Len(Pages) \in Nat \ {0} /\ DOMAIN Pages = 1..Len(Pages)
  /\ \A j \in DOMAIN Pages :
       \A i \in DOMAIN Pages[j] : Pages[j][i] \in Master!Listing
  /\ \A s \in Master!Listing :
       \E j \in DOMAIN Pages : \E i \in DOMAIN Pages[j] : Pages[j][i] = s
<1>1. /\ Pages \in Seq(Seq(Master!Listing)) /\ Pages # << >>
  BY ComponentsAssumption DEF Master!MasterAssumption
<1>2. \A j \in DOMAIN Pages : Pages[j] \in Seq(Master!Listing)
  BY <1>1
<1>3. \A s \in Master!Listing :
        \E j \in DOMAIN Pages : \E i \in DOMAIN Pages[j] : Pages[j][i] = s
  BY DEF Master!Listing, Master!ToSet
<1> HIDE DEF Master!Listing
<1> QED BY <1>1, <1>2, <1>3

LEMMA MasterStart == Init => MasterInv
<1> SUFFICES ASSUME Init PROVE MasterInv
  OBVIOUS
<1>1. Master!Init
  BY DEF Init
<1>2. /\ \A s \in Master!Listing : listed[s] = [version |-> 1, row |-> "good"]
      /\ listed \in [Master!Listing -> [version : Nat, row : Master!Rows]]
  BY <1>1 DEF Master!Init, Master!Rows
<1>3. /\ contracts \in [Master!Listing -> Nat] /\ floor \in [Master!Listing -> Nat]
      /\ \A s \in Master!Listing : contracts[s] = 0 /\ floor[s] = 0
  BY <1>1 DEF Master!Init
<1>4. /\ DOMAIN refresh = Tasks
      /\ \A t \in Tasks : refresh[t] = Master!Resting
  BY <1>1 DEF Master!Init
<1>5. MasterTypes
  BY <1>2, <1>3, <1>4, PagesOfSymbols DEF MasterTypes, Master!Resting
<1> QED BY <1>2, <1>3, <1>4, <1>5 DEF MasterInv, RowsFit, PagesIn, Master!Resting

LEMMA RelistKeeps ==
  ASSUME MasterInv, NEW s \in Master!Listing, Master!Relist(s)
  PROVE  MasterInv'
<1>1. PICK row \in Master!Rows :
        listed' = [listed EXCEPT ![s] = [version |-> listed[s].version + 1, row |-> row]]
  BY DEF Master!Relist
<1>2. UNCHANGED <<contracts, refresh, floor>>
  BY DEF Master!Relist
<1>3. /\ listed \in [Master!Listing -> [version : Nat, row : Master!Rows]]
      /\ floor \in [Master!Listing -> Nat]
      /\ \A t \in Tasks : refresh[t].since \in [Master!Listing -> Nat]
  BY DEF MasterInv, MasterTypes
<1>4. /\ listed' \in [Master!Listing -> [version : Nat, row : Master!Rows]]
      /\ \A q \in Master!Listing :
           /\ listed[q].version \in Nat /\ listed'[q].version \in Nat
           /\ listed[q].version <= listed'[q].version
  BY <1>1, <1>3
<1>5. MasterTypes'
  BY <1>2, <1>4 DEF MasterInv, MasterTypes
<1>6. \A t \in Tasks : RowsFit(refresh[t])' /\ PagesIn(t)'
  BY <1>2 DEF MasterInv, RowsFit, PagesIn
<1>7. \A q \in Master!Listing :
        /\ floor[q] <= contracts[q] /\ floor[q] <= listed'[q].version
        /\ \A t \in Tasks : refresh[t].since[q] <= listed'[q].version
  <2> SUFFICES ASSUME NEW q \in Master!Listing
               PROVE  /\ floor[q] <= contracts[q] /\ floor[q] <= listed'[q].version
                      /\ \A t \in Tasks : refresh[t].since[q] <= listed'[q].version
    OBVIOUS
  <2>1. floor[q] \in Nat /\ \A t \in Tasks : refresh[t].since[q] \in Nat
    BY <1>3
  <2>2. /\ floor[q] <= contracts[q] /\ floor[q] <= listed[q].version
        /\ \A t \in Tasks : refresh[t].since[q] <= listed[q].version
    BY DEF MasterInv
  <2> QED BY <1>4, <2>1, <2>2
<1> QED BY <1>2, <1>5, <1>6, <1>7 DEF MasterInv

LEMMA BeginKeeps ==
  ASSUME MasterInv, NEW t \in Tasks, Master!Begin(t)
  PROVE  MasterInv'
<1> DEFINE since == [s \in Master!Listing |-> listed[s].version]
           alone == \A other \in Tasks : refresh[other].page = 0
<1>1. /\ DOMAIN refresh' = Tasks
      /\ refresh'[t] = [page |-> 1, rows |-> << >>, since |-> since, alone |-> alone]
      /\ \A u \in Tasks \ {t} : refresh'[u] = [refresh[u] EXCEPT !.alone = FALSE]
      /\ UNCHANGED <<listed, contracts, floor>>
  BY DEF Master!Begin
<1>2. since \in [Master!Listing -> Nat] /\ \A s \in Master!Listing : since[s] <= listed[s].version
  BY DEF MasterInv, MasterTypes
<1> HIDE DEF since
<1>3. \A u \in Tasks \ {t} :
        /\ refresh'[u] = [page |-> refresh[u].page, rows |-> refresh[u].rows,
                          since |-> refresh[u].since, alone |-> FALSE]
        /\ refresh'[u].page = refresh[u].page /\ refresh'[u].rows = refresh[u].rows
        /\ refresh'[u].since = refresh[u].since /\ refresh'[u].alone = FALSE
  BY <1>1 DEF MasterInv, MasterTypes
<1>4. /\ refresh'[t].page = 1 /\ refresh'[t].rows = << >> /\ refresh'[t].since = since
      /\ refresh'[t].alone = alone
  BY <1>1
<1>5. MasterTypes'
  <2>1. \A u \in Tasks :
          /\ refresh'[u] = [page |-> refresh'[u].page, rows |-> refresh'[u].rows,
                            since |-> refresh'[u].since, alone |-> refresh'[u].alone]
          /\ refresh'[u].page \in 0..Len(Pages)
          /\ refresh'[u].since \in [Master!Listing -> Nat]
          /\ refresh'[u].page = 0 => refresh'[u].rows = << >>
    <3> SUFFICES ASSUME NEW u \in Tasks
                 PROVE  /\ refresh'[u] = [page |-> refresh'[u].page, rows |-> refresh'[u].rows,
                                          since |-> refresh'[u].since, alone |-> refresh'[u].alone]
                        /\ refresh'[u].page \in 0..Len(Pages)
                        /\ refresh'[u].since \in [Master!Listing -> Nat]
                        /\ refresh'[u].page = 0 => refresh'[u].rows = << >>
      OBVIOUS
    <3>1. CASE u = t
      BY <1>1, <1>2, <1>4, <3>1, PagesOfSymbols
    <3>2. CASE u # t
      BY <1>3, <3>2 DEF MasterInv, MasterTypes
    <3> QED BY <3>1, <3>2
  <2> QED BY <1>1, <2>1 DEF MasterInv, MasterTypes
<1>6. \A u \in Tasks : RowsFit(refresh[u])'
  BY <1>1, <1>3, <1>4 DEF MasterInv, RowsFit
<1>7. \A u \in Tasks : PagesIn(u)'
  <2> SUFFICES ASSUME NEW u \in Tasks PROVE PagesIn(u)'
    OBVIOUS
  <2>1. CASE u = t
    <3>1. \A j \in DOMAIN Pages : ~(j < 1)
      BY PagesOfSymbols
    <3> QED BY <1>1, <1>3, <1>4, <2>1, <3>1 DEF PagesIn
  <2>2. CASE u # t
    BY <1>3, <2>2 DEF PagesIn
  <2> QED BY <2>1, <2>2
<1>8. \A u \in Tasks : \A s \in Master!Listing : refresh'[u].since[s] <= listed[s].version
  BY <1>2, <1>3, <1>4 DEF MasterInv
<1> QED BY <1>1, <1>5, <1>6, <1>7, <1>8 DEF MasterInv

LEMMA RowsArrive ==
  ASSUME NEW r, NEW rows,
         r = [page |-> r.page, rows |-> r.rows, since |-> r.since, alone |-> r.alone]
  PROVE  [r EXCEPT !.rows = rows] =
           [page |-> r.page, rows |-> rows, since |-> r.since, alone |-> r.alone]
<1> DEFINE a == r.page
           b == r.rows
           c == r.since
           d == r.alone
<1>1. r = [page |-> a, rows |-> b, since |-> c, alone |-> d]
  OBVIOUS
<1> HIDE DEF a, b, c, d
<1>2. [r EXCEPT !.rows = rows] = [page |-> a, rows |-> rows, since |-> c, alone |-> d]
  BY <1>1
<1> QED BY <1>2 DEF a, b, c, d

(* What a refresh does to itself and to the contracts, whether it goes on  *)
(* or ends.                                                                *)
LEMMA MoveKeeps ==
  ASSUME MasterInv, NEW t \in Tasks, NEW page \in 0..Len(Pages), NEW rows,
         NEW since \in [Master!Listing -> Nat], NEW alone,
         refresh' = [refresh EXCEPT ![t] =
           [page |-> page, rows |-> rows, since |-> since, alone |-> alone]],
         \A s \in Master!Listing : since[s] <= listed[s].version,
         page # 0 => since = refresh[t].since /\ alone = refresh[t].alone,
         UNCHANGED <<listed, floor>>,
         contracts' \in [Master!Listing -> Nat],
         \A s \in Master!Listing : floor[s] <= contracts'[s],
         page = 0 => rows = << >>, refresh[t].page # 0,
         RowsFit([page |-> page, rows |-> rows, since |-> since, alone |-> alone]),
         page # 0 /\ alone =>
           \A j \in DOMAIN Pages :
             j < page =>
               \A i \in DOMAIN Pages[j] :
                 contracts'[Pages[j][i]] >= since[Pages[j][i]]
  PROVE  MasterInv'
<1>1. /\ DOMAIN refresh' = Tasks
      /\ refresh'[t].page = page /\ refresh'[t].rows = rows
      /\ refresh'[t].since = since /\ refresh'[t].alone = alone
      /\ refresh'[t] = [page |-> page, rows |-> rows, since |-> since, alone |-> alone]
      /\ \A u \in Tasks \ {t} : refresh'[u] = refresh[u]
  BY DEF MasterInv, MasterTypes
<1>2. \A u \in Tasks : \A s \in Master!Listing : refresh'[u].since[s] <= listed[s].version
  BY <1>1 DEF MasterInv
<1>3. MasterTypes'
  <2>1. \A u \in Tasks :
          /\ refresh'[u] = [page |-> refresh'[u].page, rows |-> refresh'[u].rows,
                            since |-> refresh'[u].since, alone |-> refresh'[u].alone]
          /\ refresh'[u].page \in 0..Len(Pages)
          /\ refresh'[u].since \in [Master!Listing -> Nat]
          /\ refresh'[u].page = 0 => refresh'[u].rows = << >>
    <3> SUFFICES ASSUME NEW u \in Tasks
                 PROVE  /\ refresh'[u] = [page |-> refresh'[u].page, rows |-> refresh'[u].rows,
                                          since |-> refresh'[u].since, alone |-> refresh'[u].alone]
                        /\ refresh'[u].page \in 0..Len(Pages)
                        /\ refresh'[u].since \in [Master!Listing -> Nat]
                        /\ refresh'[u].page = 0 => refresh'[u].rows = << >>
      OBVIOUS
    <3>1. CASE u = t
      BY <1>1, <3>1 DEF MasterInv, MasterTypes
    <3>2. CASE u # t
      BY <1>1, <3>2 DEF MasterInv, MasterTypes
    <3> QED BY <3>1, <3>2
  <2> QED BY <1>1, <2>1 DEF MasterInv, MasterTypes
<1>4. \A u \in Tasks : RowsFit(refresh[u])'
  BY <1>1 DEF MasterInv, RowsFit
<1>5. \A u \in Tasks : PagesIn(u)'
  <2> SUFFICES ASSUME NEW u \in Tasks, refresh'[u].page # 0, refresh'[u].alone PROVE PagesIn(u)'
    BY DEF PagesIn
  <2>1. CASE u = t
    <3>1. \A v \in Tasks \ {t} : refresh'[v].page = 0
      BY <1>1, <2>1, ZenonT(60) DEF MasterInv, PagesIn
    <3> QED BY <1>1, <2>1, <3>1 DEF PagesIn
  <2>2. CASE u # t
    BY <1>1, <2>2 DEF MasterInv, PagesIn
  <2> QED BY <2>1, <2>2
<1> QED BY <1>1, <1>2, <1>3, <1>4, <1>5 DEF MasterInv

LEMMA FetchKeeps ==
  ASSUME MasterInv, NEW t \in Tasks, Master!FetchPage(t)
  PROVE  MasterInv'
<1> DEFINE page == refresh[t].page
           rows == [i \in DOMAIN Pages[page] |->
             [symbol |-> Pages[page][i], version |-> listed[Pages[page][i]].version,
              row |-> listed[Pages[page][i]].row]]
<1>1. /\ page # 0 /\ refresh' = [refresh EXCEPT ![t].rows = rows]
      /\ UNCHANGED <<listed, contracts, floor>>
  BY DEF Master!FetchPage, Master!Awaits
<1>2. /\ refresh[t] = [page |-> page, rows |-> refresh[t].rows,
                       since |-> refresh[t].since, alone |-> refresh[t].alone]
      /\ page \in 0..Len(Pages) /\ refresh[t].since \in [Master!Listing -> Nat]
      /\ listed \in [Master!Listing -> [version : Nat, row : Master!Rows]]
      /\ contracts \in [Master!Listing -> Nat]
  BY DEF MasterInv, MasterTypes
<1>3. \A i \in DOMAIN rows :
        /\ rows[i].symbol = Pages[page][i] /\ rows[i].version \in Nat
        /\ rows[i].version >= floor[Pages[page][i]]
        /\ rows[i].version >= refresh[t].since[Pages[page][i]]
  <2> SUFFICES ASSUME NEW i \in DOMAIN rows
               PROVE  /\ rows[i].symbol = Pages[page][i] /\ rows[i].version \in Nat
                      /\ rows[i].version >= floor[Pages[page][i]]
                      /\ rows[i].version >= refresh[t].since[Pages[page][i]]
    OBVIOUS
  <2>1. Pages[page][i] \in Master!Listing
    BY <1>1, <1>2, PagesOfSymbols
  <2>2. /\ rows[i].symbol = Pages[page][i]
        /\ rows[i].version = listed[Pages[page][i]].version
    OBVIOUS
  <2>3. /\ floor[Pages[page][i]] <= listed[Pages[page][i]].version
        /\ refresh[t].since[Pages[page][i]] <= listed[Pages[page][i]].version
        /\ floor[Pages[page][i]] \in Nat /\ refresh[t].since[Pages[page][i]] \in Nat
        /\ listed[Pages[page][i]].version \in Nat
    BY <1>2, <2>1 DEF MasterInv, MasterTypes
  <2> HIDE DEF rows, page
  <2> QED BY <2>2, <2>3
<1>4. DOMAIN rows = DOMAIN Pages[page]
  OBVIOUS
<1> HIDE DEF rows
<1>5. refresh' = [refresh EXCEPT ![t] =
        [page |-> page, rows |-> rows, since |-> refresh[t].since, alone |-> refresh[t].alone]]
  <2>1. refresh' = [refresh EXCEPT ![t] = [refresh[t] EXCEPT !.rows = rows]]
    BY <1>1
  <2> QED BY <1>2, <2>1, RowsArrive
<1>6. RowsFit([page |-> page, rows |-> rows, since |-> refresh[t].since,
               alone |-> refresh[t].alone])
  BY <1>3, <1>4 DEF RowsFit
<1>7. page # 0 /\ refresh[t].alone =>
        \A j \in DOMAIN Pages :
          j < page =>
            \A i \in DOMAIN Pages[j] :
              contracts'[Pages[j][i]] >= refresh[t].since[Pages[j][i]]
  BY <1>1 DEF MasterInv, PagesIn
<1>8. \A s \in Master!Listing :
        floor[s] <= contracts'[s] /\ refresh[t].since[s] <= listed[s].version
  BY <1>1 DEF MasterInv
<1>9. refresh[t].page # 0 /\ contracts' \in [Master!Listing -> Nat]
  BY <1>1, <1>2
<1> HIDE DEF page
<1> QED BY <1>1, <1>2, <1>5, <1>6, <1>7, <1>8, <1>9, MoveKeeps

(* A refresh that ends, with what it has brought in before. *)
LEMMA RestKeeps ==
  ASSUME MasterInv, NEW t \in Tasks, refresh[t].page # 0,
         refresh' = [refresh EXCEPT ![t] = Master!Resting],
         UNCHANGED <<listed, floor>>, contracts' \in [Master!Listing -> Nat],
         \A s \in Master!Listing : floor[s] <= contracts'[s]
  PROVE  MasterInv'
<1> DEFINE none == [s \in Master!Listing |-> 0]
<1>1. refresh' = [refresh EXCEPT ![t] =
        [page |-> 0, rows |-> << >>, since |-> none, alone |-> TRUE]]
  BY DEF Master!Resting
<1>2. /\ none \in [Master!Listing -> Nat] /\ 0 \in 0..Len(Pages)
      /\ \A s \in Master!Listing : none[s] <= listed[s].version
  BY PagesOfSymbols DEF MasterInv, MasterTypes
<1>3. RowsFit([page |-> 0, rows |-> << >>, since |-> none, alone |-> TRUE])
  BY DEF RowsFit
<1> HIDE DEF none
<1> QED BY <1>1, <1>2, <1>3, MoveKeeps

(* The contracts after a page: what is upserted is new enough. *)
LEMMA TakePageKeeps ==
  ASSUME MasterInv, NEW t \in Tasks, Master!TakePage(t)
  PROVE  MasterInv'
<1> DEFINE task == refresh[t]
           rows == task.rows
           upserted == Master!Upserted(rows)
           whole == upserted = DOMAIN rows
<1>1. /\ rows # << >> /\ UNCHANGED listed
      /\ contracts' = [s \in Master!Listing |->
           IF \E i \in upserted : rows[i].symbol = s
           THEN rows[CHOOSE i \in upserted : rows[i].symbol = s].version
           ELSE contracts[s]]
      /\ refresh' = [refresh EXCEPT ![t] =
           IF whole /\ ~Master!LastPage(t)
           THEN [page |-> task.page + 1, rows |-> << >>, since |-> task.since,
                 alone |-> task.alone]
           ELSE Master!Resting]
      /\ floor' = IF whole /\ Master!LastPage(t) /\ task.alone THEN task.since ELSE floor
  BY DEF Master!TakePage
<1>2. /\ task = [page |-> task.page, rows |-> rows, since |-> task.since, alone |-> task.alone]
      /\ task.page \in 1..Len(Pages) /\ task.since \in [Master!Listing -> Nat]
      /\ contracts \in [Master!Listing -> Nat] /\ floor \in [Master!Listing -> Nat]
  BY <1>1, PagesOfSymbols DEF MasterInv, MasterTypes
<1>3. /\ DOMAIN rows = DOMAIN Pages[task.page] /\ upserted \subseteq DOMAIN rows
      /\ \A i \in DOMAIN rows :
           /\ rows[i].symbol = Pages[task.page][i] /\ rows[i].version \in Nat
           /\ rows[i].version >= floor[Pages[task.page][i]]
           /\ rows[i].version >= task.since[Pages[task.page][i]]
  BY <1>1 DEF MasterInv, RowsFit, Master!Upserted
<1> HIDE DEF upserted
<1>4. \A s \in Master!Listing :
        /\ contracts'[s] \in Nat
        /\ contracts'[s] = contracts[s] \/ contracts'[s] >= task.since[s]
        /\ contracts'[s] = contracts[s] \/ contracts'[s] >= floor[s]
        /\ (\E i \in upserted : Pages[task.page][i] = s) => contracts'[s] >= task.since[s]
  <2> SUFFICES ASSUME NEW s \in Master!Listing
      PROVE  /\ contracts'[s] \in Nat
             /\ contracts'[s] = contracts[s] \/ contracts'[s] >= task.since[s]
             /\ contracts'[s] = contracts[s] \/ contracts'[s] >= floor[s]
             /\ (\E i \in upserted : Pages[task.page][i] = s) => contracts'[s] >= task.since[s]
    OBVIOUS
  <2>1. CASE \E i \in upserted : rows[i].symbol = s
    <3>1. PICK i \in upserted : rows[i].symbol = s /\ contracts'[s] = rows[i].version
      BY <1>1, <2>1
    <3>2. i \in DOMAIN rows /\ Pages[task.page][i] = s
      BY <1>3, <3>1
    <3> QED BY <1>3, <3>1, <3>2
  <2>2. CASE ~\E i \in upserted : rows[i].symbol = s
    BY <1>1, <1>2, <1>3, <2>2
  <2> QED BY <2>1, <2>2
<1>5. contracts' \in [Master!Listing -> Nat]
  BY <1>1, <1>4
<1>6. \A s \in Master!Listing : floor[s] <= contracts'[s] /\ task.since[s] <= listed[s].version
  BY <1>2, <1>4 DEF MasterInv
<1>7. ASSUME whole, task.alone
      PROVE  \A j \in DOMAIN Pages :
               j <= task.page =>
                 \A i \in DOMAIN Pages[j] : contracts'[Pages[j][i]] >= task.since[Pages[j][i]]
  <2> SUFFICES ASSUME NEW j \in DOMAIN Pages, j <= task.page, NEW i \in DOMAIN Pages[j]
               PROVE  contracts'[Pages[j][i]] >= task.since[Pages[j][i]]
    OBVIOUS
  <2>1. Pages[j][i] \in Master!Listing
    BY PagesOfSymbols
  <2>2. CASE j = task.page
    BY <1>3, <1>4, <1>7, <2>1, <2>2
  <2>3. CASE j # task.page
    <3>1. j < task.page /\ task.page # 0
      BY <1>2, <2>3, PagesOfSymbols
    <3>2. contracts[Pages[j][i]] >= task.since[Pages[j][i]]
      BY <1>7, <3>1 DEF MasterInv, PagesIn
    <3> QED BY <1>4, <2>1, <3>2
  <2> QED BY <2>2, <2>3
<1>8. CASE whole /\ ~Master!LastPage(t)
  <2>1. /\ refresh' = [refresh EXCEPT ![t] =
             [page |-> task.page + 1, rows |-> << >>, since |-> task.since,
              alone |-> task.alone]]
        /\ UNCHANGED <<listed, floor>>
    BY <1>1, <1>2, <1>8
  <2>2. task.page + 1 \in 0..Len(Pages)
    BY <1>2, <1>8, PagesOfSymbols DEF Master!LastPage
  <2>3. RowsFit([page |-> task.page + 1, rows |-> << >>, since |-> task.since,
                 alone |-> task.alone])
    BY DEF RowsFit
  <2>4. task.page + 1 # 0 /\ task.alone =>
          \A j \in DOMAIN Pages :
            j < task.page + 1 =>
              \A i \in DOMAIN Pages[j] : contracts'[Pages[j][i]] >= task.since[Pages[j][i]]
    BY <1>2, <1>7, <1>8, PagesOfSymbols
  <2>5. task.page # 0 /\ task.page + 1 # 0
    BY <1>2
  <2> DEFINE next == task.page + 1
  <2>6. /\ next \in 0..Len(Pages) /\ next # 0
        /\ refresh' = [refresh EXCEPT ![t] =
             [page |-> next, rows |-> << >>, since |-> task.since, alone |-> task.alone]]
        /\ RowsFit([page |-> next, rows |-> << >>, since |-> task.since, alone |-> task.alone])
        /\ next # 0 /\ task.alone =>
             \A j \in DOMAIN Pages :
               j < next =>
                 \A i \in DOMAIN Pages[j] : contracts'[Pages[j][i]] >= task.since[Pages[j][i]]
    BY <2>1, <2>2, <2>3, <2>4, <2>5
  <2> HIDE DEF next
  <2> QED BY <1>2, <1>5, <1>6, <2>1, <2>5, <2>6, MoveKeeps
<1>9. CASE ~(whole /\ ~Master!LastPage(t)) /\ UNCHANGED floor
  <2>1. refresh' = [refresh EXCEPT ![t] = Master!Resting]
    BY <1>1, <1>9
  <2>2. task.page # 0
    BY <1>2
  <2> QED BY <1>1, <1>5, <1>6, <1>9, <2>1, <2>2, RestKeeps
<1>10. CASE whole /\ Master!LastPage(t) /\ task.alone
  <2>1. /\ refresh' = [refresh EXCEPT ![t] = Master!Resting]
        /\ floor' = task.since
    BY <1>1, <1>10
  <2>2. /\ \A u \in Tasks : refresh'[u].page = 0 /\ refresh'[u].rows = << >>
        /\ \A u \in Tasks \ {t} : refresh'[u] = refresh[u]
        /\ refresh'[t] = Master!Resting /\ DOMAIN refresh' = Tasks
    <3>1. task.page # 0 /\ task.alone
      BY <1>2, <1>10
    <3>2. \A u \in Tasks \ {t} : refresh[u].page = 0
      BY <3>1 DEF MasterInv, PagesIn
    <3>3. \A u \in Tasks \ {t} : refresh[u].rows = << >>
      BY <3>2 DEF MasterInv, MasterTypes
    <3>4. /\ DOMAIN refresh = Tasks
          /\ Master!Resting.page = 0 /\ Master!Resting.rows = << >>
      BY DEF MasterInv, MasterTypes, Master!Resting
    <3> QED BY <2>1, <3>2, <3>3, <3>4
  <2> DEFINE none == [s \in Master!Listing |-> 0]
  <2>3. MasterTypes'
    <3>1. /\ refresh'[t] = [page |-> 0, rows |-> << >>, since |-> none, alone |-> TRUE]
          /\ none \in [Master!Listing -> Nat] /\ 0 \in 0..Len(Pages)
      BY <2>2, PagesOfSymbols DEF Master!Resting
    <3> HIDE DEF none
    <3>2. \A u \in Tasks :
            /\ refresh'[u] = [page |-> refresh'[u].page, rows |-> refresh'[u].rows,
                              since |-> refresh'[u].since, alone |-> refresh'[u].alone]
            /\ refresh'[u].page \in 0..Len(Pages)
            /\ refresh'[u].since \in [Master!Listing -> Nat]
            /\ refresh'[u].page = 0 => refresh'[u].rows = << >>
      <4> SUFFICES ASSUME NEW u \in Tasks
                   PROVE  /\ refresh'[u] = [page |-> refresh'[u].page, rows |-> refresh'[u].rows,
                                            since |-> refresh'[u].since, alone |-> refresh'[u].alone]
                          /\ refresh'[u].page \in 0..Len(Pages)
                          /\ refresh'[u].since \in [Master!Listing -> Nat]
                          /\ refresh'[u].page = 0 => refresh'[u].rows = << >>
        OBVIOUS
      <4>1. CASE u = t
        BY <3>1, <4>1
      <4>2. CASE u # t
        BY <2>2, <4>2 DEF MasterInv, MasterTypes
      <4> QED BY <4>1, <4>2
    <3>3. listed' \in [Master!Listing -> [version : Nat, row : Master!Rows]]
      BY <1>1 DEF MasterInv, MasterTypes
    <3>4. floor' \in [Master!Listing -> Nat]
      BY <1>2, <2>1
    <3> QED BY <1>5, <2>2, <3>2, <3>3, <3>4 DEF MasterTypes
  <2>4. \A s \in Master!Listing : contracts'[s] >= task.since[s]
    <3> SUFFICES ASSUME NEW s \in Master!Listing PROVE contracts'[s] >= task.since[s]
      OBVIOUS
    <3>1. PICK j \in DOMAIN Pages : \E i \in DOMAIN Pages[j] : Pages[j][i] = s
      BY PagesOfSymbols
    <3>2. j <= task.page
      BY <1>10, PagesOfSymbols DEF Master!LastPage
    <3> QED BY <1>7, <1>10, <3>1, <3>2
  <2>5. \A u \in Tasks :
          /\ RowsFit(refresh[u])' /\ PagesIn(u)'
          /\ \A s \in Master!Listing : refresh'[u].since[s] <= listed'[s].version
    <3>1. \A u \in Tasks : RowsFit(refresh[u])' /\ PagesIn(u)'
      BY <2>2 DEF RowsFit, PagesIn
    <3>2. listed' = listed
      BY <1>1
    <3>3. /\ \A s \in Master!Listing : refresh'[t].since[s] = 0 /\ listed[s].version \in Nat
          /\ \A u \in Tasks, s \in Master!Listing : refresh[u].since[s] <= listed[s].version
      BY <2>2 DEF MasterInv, MasterTypes, Master!Resting
    <3>4. \A u \in Tasks, s \in Master!Listing : refresh'[u].since[s] <= listed'[s].version
      BY <2>2, <3>2, <3>3
    <3> QED BY <3>1, <3>4
  <2>6. \A s \in Master!Listing : floor'[s] <= contracts'[s] /\ floor'[s] <= listed'[s].version
    BY <1>1, <1>2, <1>4, <1>6, <2>1, <2>4
  <2> QED BY <2>3, <2>5, <2>6 DEF MasterInv
<1> QED BY <1>1, <1>8, <1>9, <1>10

LEMMA MasterQuiet ==
  ASSUME MasterInv, UNCHANGED masterVars
  PROVE  MasterInv'
BY DEF MasterInv, MasterTypes, RowsFit, PagesIn, masterVars

LEMMA MasterNext == MasterInv /\ [Next]_all => MasterInv'
<1> SUFFICES ASSUME MasterInv, [Next]_all PROVE MasterInv'
  OBVIOUS
<1>1. CASE MasterStep
  <2>1. CASE \E s \in Master!Listing : Master!Relist(s)
    BY <2>1, RelistKeeps
  <2>2. ASSUME NEW t \in Tasks,
               Master!Begin(t) \/ Master!FetchPage(t) \/ Master!FetchFails(t)
                 \/ Master!TakePage(t)
        PROVE  MasterInv'
    <3>1. CASE Master!FetchFails(t)
      BY <3>1, RestKeeps DEF Master!FetchFails, Master!Awaits, MasterInv, MasterTypes
    <3> QED BY <2>2, <3>1, BeginKeeps, FetchKeeps, TakePageKeeps
  <2> QED BY <1>1, <2>1, <2>2 DEF MasterStep, Master!Next
<1>2. CASE ~MasterStep
  <2>1. UNCHANGED masterVars
    BY <1>2 DEF Next, StreamStep, StoreStep, BridgeStep, PolicyStep, PoolStep, QuotesStep, all
  <2> QED BY <2>1, MasterQuiet
<1> QED BY <1>1, <1>2

(* Whatever order pages, answers and events arrive in, whatever fails and  *)
(* however refreshes and calls overlap: the contract master never falls    *)
(* behind a refresh that went through alone, nor the cache of quotes       *)
(* behind what it held when nothing was on its way.                        *)
THEOREM MarketData == Spec => []MarketSettles
<1>1. QuoteInv => Quotes!CacheSettles
  BY DEF QuoteInv, QuoteTypes, QuotesInOrder, Between, Quotes!CacheSettles
<1>2. MasterInv => Master!MasterKeepsUp
  BY DEF MasterInv, MasterTypes, Master!MasterKeepsUp
<1> QED BY <1>1, <1>2, QuoteInit, QuotesNext, MasterStart, MasterNext, PTL
        DEF Spec, MarketSettles

-----------------------------------------------------------------------------
(* THE BRIDGE: bytes (Bridge) *)

Byte == 0 .. Base - 1

LEMMA Weights ==
  /\ Base \in Nat /\ Base > 1
  /\ Wire!Weight[1] = 1
  /\ \A i \in 1 .. 9 : Wire!Weight[i] \in Nat /\ Wire!Weight[i] >= 1
  /\ \A i \in 1 .. 8 : Wire!Weight[i + 1] = Base * Wire!Weight[i]
<1>1. Base \in Nat /\ Base > 1
  BY ComponentsAssumption DEF Wire!BridgeAssumption
<1> DEFINE b == Base
           c == b * b
           d == c * c
<1>2. Wire!Weight = <<1, b, c, b * c, d, d * b, d * c, d * b * c, d * d>>
  BY DEF Wire!Weight
<1>3. b \in Nat /\ b > 1
  BY <1>1
<1>4. c \in Nat /\ c >= 1 /\ c = b * b
  BY <1>3
<1> HIDE DEF b, c
<1>5. d \in Nat /\ d >= 1 /\ d = c * c
  BY <1>4
<1> HIDE DEF d
<1>6. b * c \in Nat /\ b * c >= 1
  BY <1>3, <1>4
<1>7. d * b \in Nat /\ d * b >= 1 /\ d * c \in Nat /\ d * c >= 1
  BY <1>3, <1>4, <1>5
<1>8. d * b * c \in Nat /\ d * b * c >= 1 /\ d * d \in Nat /\ d * d >= 1
  BY <1>3, <1>4, <1>5, <1>6, <1>7
<1>9. /\ d = b * (b * c) /\ d * b = b * d /\ d * c = b * (d * b)
      /\ d * b * c = b * (d * c) /\ d * d = b * (d * b * c)
  BY <1>3, <1>4, <1>5
<1>10. 1 .. 9 = {1, 2, 3, 4, 5, 6, 7, 8, 9}
  OBVIOUS
<1>11. \A i \in 1 .. 9 : Wire!Weight[i] \in Nat /\ Wire!Weight[i] >= 1
  BY <1>2, <1>3, <1>4, <1>5, <1>6, <1>7, <1>8, <1>10
<1>12. ASSUME NEW i \in 1 .. 8 PROVE Wire!Weight[i + 1] = b * Wire!Weight[i]
  <2>1. i = 1 \/ i = 2 \/ i = 3 \/ i = 4 \/ i = 5 \/ i = 6 \/ i = 7 \/ i = 8
    OBVIOUS
  <2>2. b * 1 = b
    BY <1>3
  <2> QED BY <1>2, <1>4, <1>9, <2>1, <2>2
<1> QED BY <1>1, <1>2, <1>11, <1>12 DEF b

LEMMA FieldLimits ==
  /\ Wire!Weight[5] \in Nat /\ Wire!Weight[5] > 1
  /\ Wire!Weight[9] \in Nat
<1> DEFINE b == Base
           c == b * b
           d == c * c
<1>1. b \in Nat /\ b > 1
  BY Weights
<1>2. Wire!Weight[5] = d /\ Wire!Weight[9] = d * d
  BY DEF Wire!Weight
<1>3. c \in Nat /\ c > 1
  BY <1>1
<1> HIDE DEF b, c
<1>4. d \in Nat /\ d > 1
  BY <1>3
<1> HIDE DEF d
<1>5. d * d \in Nat
  BY <1>4
<1> QED BY <1>2, <1>4, <1>5

LEMMA Remainder ==
  ASSUME NEW m \in Nat, m >= 1, NEW q \in Nat, NEW r \in 0 .. m - 1, NEW n \in Nat,
         n = m * q + r
  PROVE  r = n % m
OBVIOUS

(* A digit more, of a number in digits. *)
LEMMA Digit ==
  ASSUME NEW n \in Nat, NEW w \in Nat, w >= 1
  PROVE  ((n \div w) % Base) * w + (n % w) = n % (Base * w)
<1>1. Base \in Nat /\ Base > 1
  BY Weights
<1> DEFINE q == n \div w
           r == n % w
           d == q % Base
           p == q \div Base
           m == Base * w
<1>2. q \in Nat /\ r \in Nat /\ r < w /\ n = w * q + r
  OBVIOUS
<1> HIDE DEF q, r
<1>3. d \in Nat /\ d <= Base - 1 /\ p \in Nat /\ q = Base * p + d
  BY <1>1, <1>2
<1> HIDE DEF d, p
<1>4. m \in Nat /\ m >= 1 /\ m = Base * w
  BY <1>1
<1>5. d * w \in Nat /\ d * w <= (Base - 1) * w
  <2>1. PICK e \in Nat : Base - 1 = d + e
    <3>1. (Base - 1) - d \in Nat /\ Base - 1 = d + ((Base - 1) - d)
      BY <1>1, <1>3
    <3> QED BY <3>1
  <2>2. (Base - 1) * w = d * w + e * w /\ e * w \in Nat /\ d * w \in Nat
    BY <1>3, <2>1
  <2> QED BY <2>2
<1>6. (Base - 1) * w = m - w
  BY <1>1, <1>4
<1>7. d * w + r \in 0 .. m - 1
  BY <1>2, <1>4, <1>5, <1>6
<1>8. n = m * p + (d * w + r)
  <2>1. w * q = w * (Base * p) + w * d
    BY <1>1, <1>3
  <2>2. w * (Base * p) = m * p /\ w * d = d * w
    BY <1>1, <1>3, <1>4
  <2> QED BY <1>2, <1>3, <1>4, <2>1, <2>2
<1> DEFINE rest == d * w + r
<1>9. rest \in 0 .. m - 1 /\ n = m * p + rest
  BY <1>7, <1>8
<1> HIDE DEF rest, m
<1>10. rest = n % m
  <2>1. m \in Nat /\ m >= 1
    BY <1>4
  <2> QED BY <1>3, <1>9, <2>1, Remainder
<1>11. d * w + r = n % (Base * w)
  BY <1>10 DEF rest, m
<1> QED BY <1>11 DEF q, r, d

LEMMA DigitIsByte ==
  ASSUME NEW n \in Nat, NEW w \in Nat, w >= 1
  PROVE  (n \div w) % Base \in Byte
<1>1. n \div w \in Nat
  OBVIOUS
<1>2. Base \in Nat /\ Base > 1
  BY Weights
<1> DEFINE q == n \div w
<1>3. q \in Nat
  BY <1>1
<1> HIDE DEF q
<1>4. q % Base \in 0 .. Base - 1
  BY <1>2, <1>3
<1> QED BY <1>4 DEF q, Byte

LEMMA NextByte ==
  ASSUME NEW c \in Byte
  PROVE  (c + 1) % Base \in Byte /\ (c + 1) % Base # c /\ (c + 1) % Base \in Int
<1>1. Base \in Nat /\ Base > 1 /\ c \in Nat /\ c < Base
  BY Weights DEF Byte
<1>2. CASE c + 1 = Base
  <2>1. (c + 1) % Base = 0
    <3>1. c + 1 = Base * 1 + 0 /\ c + 1 \in Nat /\ 0 \in 0 .. Base - 1 /\ 1 \in Nat /\ Base >= 1
      BY <1>1, <1>2
    <3> QED BY <1>1, <3>1, Remainder
  <2> QED BY <1>1, <1>2, <2>1 DEF Byte
<1>3. CASE c + 1 # Base
  <2>1. (c + 1) % Base = c + 1
    <3>1. c + 1 = Base * 0 + (c + 1) /\ c + 1 \in 0 .. Base - 1 /\ 0 \in Nat /\ Base >= 1
          /\ c + 1 \in Nat
      BY <1>1, <1>3
    <3> QED BY <1>1, <3>1, Remainder
  <2> QED BY <1>1, <1>3, <2>1 DEF Byte
<1> QED BY <1>2, <1>3

(* The numbers that the bytes of a field add up to. *)
Parts(bytes) == [i \in DOMAIN bytes |-> bytes[i] * Wire!Weight[i]]

LEMMA ValueIs ==
  ASSUME NEW bytes
  PROVE  Wire!Value(bytes) = SumFunctionOnSet(Parts(bytes), DOMAIN bytes)
BY DEF Wire!Value, Parts, Wire!SumFunction, Wire!SumFunctionOnSet, SumFunctionOnSet,
       Wire!FoldFunctionOnSet, FoldFunctionOnSet, Wire!MapThenFoldSet, MapThenFoldSet

(* The lowest k bytes of a number. *)
LEMMA LowBytes ==
  ASSUME NEW n \in Nat, NEW k \in 0 .. 7,
         NEW f, \A i \in 1 .. 8 : f[i] = ((n \div Wire!Weight[i]) % Base) * Wire!Weight[i],
         SumFunctionOnSet(f, 1 .. k) = n % Wire!Weight[k + 1]
  PROVE  SumFunctionOnSet(f, 1 .. (k + 1)) = n % Wire!Weight[(k + 1) + 1]
<1> DEFINE S == 1 .. k
           x == k + 1
           w == Wire!Weight[x]
           g == [i \in S \cup {x} |-> f[i]]
<1>1. x \in 1 .. 8 /\ x \notin S /\ S \cup {x} = 1 .. x /\ S \subseteq 1 .. 8
  OBVIOUS
<1>2. IsFiniteSet(S) /\ IsFiniteSet(S \cup {x})
  <2>1. IsFiniteSet(S)
    <3>1. 1 \in Int /\ k \in Int
      OBVIOUS
    <3> QED BY <3>1, FS_Interval
  <2> HIDE DEF S, x
  <2> QED BY <2>1, FS_AddElement
<1>3. ASSUME NEW i \in 1 .. 8 PROVE f[i] \in Int
  <2>1. i \in 1 .. 9
    OBVIOUS
  <2>2. Wire!Weight[i] \in Nat /\ Wire!Weight[i] >= 1
    BY <2>1, Weights
  <2>3. (n \div Wire!Weight[i]) % Base \in Byte
    BY <2>2, DigitIsByte
  <2>4. (n \div Wire!Weight[i]) % Base \in Int
    BY <2>3, Weights DEF Byte
  <2> QED BY <2>2, <2>4
<1>4. g \in [S \cup {x} -> Int]
  BY <1>1, <1>3
<1>5. /\ \A i \in S : g[i] = f[i]
      /\ \A i \in S \cup {x} : g[i] = f[i]
      /\ g[x] = f[x]
  OBVIOUS
<1>6. f[x] = ((n \div w) % Base) * w /\ SumFunctionOnSet(f, S) = n % w
  BY <1>1
<1>7. w \in Nat /\ w >= 1 /\ Wire!Weight[x + 1] = Base * w
  <2>1. x \in 1 .. 8 /\ x \in 1 .. 9
    BY <1>1
  <2> HIDE DEF x
  <2> QED BY <2>1, Weights
<1> HIDE DEF S, x, w, g
<1>8. SumFunctionOnSet(g, S \cup {x}) = g[x] + SumFunctionOnSet(g, S)
  BY <1>1, <1>2, <1>4, SumAdd
<1>9. /\ SumFunctionOnSet(g, S) = SumFunctionOnSet(f, S)
      /\ SumFunctionOnSet(g, S \cup {x}) = SumFunctionOnSet(f, S \cup {x})
  BY <1>2, <1>5, SumSame
<1>10. SumFunctionOnSet(f, 1 .. x) = ((n \div w) % Base) * w + (n % w)
  BY <1>1, <1>5, <1>6, <1>8, <1>9
<1>11. SumFunctionOnSet(f, 1 .. x) = n % Wire!Weight[x + 1]
  BY <1>7, <1>10, Digit
<1> QED BY <1>11 DEF x

LEMMA AllBytes ==
  ASSUME NEW n \in Nat, NEW k \in 0 .. 8,
         NEW f, \A i \in 1 .. 8 : f[i] = ((n \div Wire!Weight[i]) % Base) * Wire!Weight[i]
  PROVE  SumFunctionOnSet(f, 1 .. k) = n % Wire!Weight[k + 1]
<1> DEFINE AddUp(j) == SumFunctionOnSet(f, 1 .. j) = n % Wire!Weight[j + 1]
<1>1. AddUp(0)
  <2>1. 1 .. 0 = {} /\ n % 1 = 0 /\ 0 + 1 = 1
    OBVIOUS
  <2> QED BY <2>1, SumEmpty, Weights
<1>2. ASSUME NEW j \in 0 .. 7, AddUp(j) PROVE AddUp(j + 1)
  BY <1>2, LowBytes
<1> HIDE DEF AddUp
<1>3. /\ 0 + 1 = 1 /\ 1 + 1 = 2 /\ 2 + 1 = 3 /\ 3 + 1 = 4
      /\ 4 + 1 = 5 /\ 5 + 1 = 6 /\ 6 + 1 = 7 /\ 7 + 1 = 8
      /\ 0 .. 7 = {0, 1, 2, 3, 4, 5, 6, 7}
      /\ 0 .. 8 = {0, 1, 2, 3, 4, 5, 6, 7, 8}
  OBVIOUS
<1>4. AddUp(1) /\ AddUp(2) /\ AddUp(3) /\ AddUp(4)
  <2>1. AddUp(1)
    BY <1>1, <1>2, <1>3
  <2>2. AddUp(2)
    BY <1>2, <1>3, <2>1
  <2>3. AddUp(3)
    BY <1>2, <1>3, <2>2
  <2>4. AddUp(4)
    BY <1>2, <1>3, <2>3
  <2> QED BY <2>1, <2>2, <2>3, <2>4
<1>5. AddUp(5) /\ AddUp(6) /\ AddUp(7) /\ AddUp(8)
  <2>1. AddUp(5)
    BY <1>2, <1>3, <1>4
  <2>2. AddUp(6)
    BY <1>2, <1>3, <2>1
  <2>3. AddUp(7)
    BY <1>2, <1>3, <2>2
  <2>4. AddUp(8)
    BY <1>2, <1>3, <2>3
  <2> QED BY <2>1, <2>2, <2>3, <2>4
<1>6. AddUp(k)
  BY <1>1, <1>3, <1>4, <1>5
<1> QED BY <1>6 DEF AddUp

(* A number that fits into a field is read back as it was written. *)
LEMMA ReadBack ==
  ASSUME NEW width \in 1 .. 8, NEW n \in Nat, n < Wire!Weight[width + 1]
  PROVE  /\ Wire!Bytes(n, width) \in [1 .. width -> Byte]
         /\ Wire!Value(Wire!Bytes(n, width)) = n
<1> DEFINE bytes == Wire!Bytes(n, width)
           f == [i \in 1 .. 8 |-> ((n \div Wire!Weight[i]) % Base) * Wire!Weight[i]]
<1>1. DOMAIN bytes = 1 .. width /\ 1 .. width \subseteq 1 .. 8
      /\ \A i \in 1 .. width : bytes[i] = (n \div Wire!Weight[i]) % Base
  BY DEF Wire!Bytes
<1>2. bytes \in [1 .. width -> Byte]
  <2>1. ASSUME NEW i \in 1 .. width PROVE bytes[i] \in Byte
    <3>1. i \in 1 .. 9
      BY <1>1
    <3>2. Wire!Weight[i] \in Nat /\ Wire!Weight[i] >= 1
      BY <3>1, Weights
    <3>3. (n \div Wire!Weight[i]) % Base \in Byte
      BY <3>2, DigitIsByte
    <3> QED BY <1>1, <3>3
  <2> QED BY <2>1 DEF Wire!Bytes
<1>3. \A i \in 1 .. width : Parts(bytes)[i] = f[i]
  BY <1>1 DEF Parts
<1>4. IsFiniteSet(1 .. width)
  <2>1. 1 \in Int /\ width \in Int
    OBVIOUS
  <2> QED BY <2>1, FS_Interval
<1>5. SumFunctionOnSet(f, 1 .. width) = n % Wire!Weight[width + 1]
  <2>1. width \in 0 .. 8 /\ \A i \in 1 .. 8 : f[i] = ((n \div Wire!Weight[i]) % Base) * Wire!Weight[i]
    OBVIOUS
  <2> HIDE DEF f
  <2> QED BY <2>1, AllBytes
<1>6. n % Wire!Weight[width + 1] = n
  <2>1. width + 1 \in 1 .. 9
    OBVIOUS
  <2>2. Wire!Weight[width + 1] \in Nat
    BY <2>1, Weights
  <2> QED BY <2>2
<1>7. Wire!Value(bytes) = SumFunctionOnSet(Parts(bytes), 1 .. width)
  BY <1>1, ValueIs
<1> HIDE DEF bytes, f
<1>8. SumFunctionOnSet(Parts(bytes), 1 .. width) = SumFunctionOnSet(f, 1 .. width)
  BY <1>3, <1>4, SumSame
<1>9. bytes \in [1 .. width -> Byte] /\ Wire!Value(bytes) = n
  BY <1>2, <1>5, <1>6, <1>7, <1>8
<1> QED BY <1>9 DEF bytes

LEMMA ValueIsNumber ==
  ASSUME NEW width \in 1 .. 8, NEW bytes \in [1 .. width -> Byte]
  PROVE  Wire!Value(bytes) \in Int
<1>1. DOMAIN bytes = 1 .. width /\ 1 .. width \subseteq 1 .. 9
  OBVIOUS
<1>2. ASSUME NEW i \in 1 .. width PROVE Parts(bytes)[i] \in Int
  <2>1. Wire!Weight[i] \in Nat
    BY <1>1, Weights
  <2>2. bytes[i] \in Int
    BY Weights DEF Byte
  <2> QED BY <1>1, <2>1, <2>2 DEF Parts
<1>3. Parts(bytes) \in [1 .. width -> Int]
  BY <1>1, <1>2 DEF Parts
<1>4. IsFiniteSet(1 .. width)
  <2>1. 1 \in Int /\ width \in Int
    OBVIOUS
  <2> QED BY <2>1, FS_Interval
<1>5. SumFunctionOnSet(Parts(bytes), 1 .. width) \in Int
  <2> HIDE DEF Parts
  <2> QED BY <1>3, <1>4, SumType
<1> QED BY <1>1, <1>5, ValueIs

LEMMA SumDiffers ==
  ASSUME NEW S, IsFiniteSet(S), NEW f \in [S -> Int], NEW g \in [S -> Int],
         NEW x \in S, \A y \in S \ {x} : f[y] = g[y], f[x] # g[x]
  PROVE  SumFunctionOnSet(f, S) # SumFunctionOnSet(g, S)
<1>1. SumFunctionOnSet(f, S) \in Int
  BY SumType
<1>2. SumFunctionOnSet(g, S) = SumFunctionOnSet(f, S) - f[x] + g[x]
  BY SumUpdate
<1>3. f[x] \in Int /\ g[x] \in Int
  OBVIOUS
<1> QED BY <1>1, <1>2, <1>3

(* With another byte a field has another value. *)
LEMMA OtherValue ==
  ASSUME NEW width \in 1 .. 8, NEW bytes \in [1 .. width -> Byte],
         NEW other \in [1 .. width -> Byte], NEW k \in 1 .. width,
         other[k] # bytes[k], \A i \in (1 .. width) \ {k} : other[i] = bytes[i]
  PROVE  Wire!Value(other) # Wire!Value(bytes)
<1> DEFINE f == Parts(bytes)
           g == Parts(other)
           S == 1 .. width
           w == Wire!Weight[k]
<1>1. DOMAIN bytes = S /\ DOMAIN other = S /\ S \subseteq 1 .. 9 /\ k \in S
  OBVIOUS
<1>2. Base \in Nat /\ w \in Nat /\ w >= 1 /\ \A i \in S : Wire!Weight[i] \in Nat
  <2>1. k \in 1 .. 9
    BY <1>1
  <2> HIDE DEF S
  <2> QED BY <1>1, <2>1, Weights
<1>3. \A i \in S : bytes[i] \in Nat /\ other[i] \in Nat
  BY <1>2 DEF Byte
<1>4. \A i \in S : bytes[i] * Wire!Weight[i] \in Int /\ other[i] * Wire!Weight[i] \in Int
  BY <1>2, <1>3
<1>5. f \in [S -> Int] /\ g \in [S -> Int]
  BY <1>1, <1>4 DEF Parts
<1>6. \A i \in S \ {k} : f[i] = g[i]
  BY <1>1 DEF Parts
<1>7. f[k] = bytes[k] * w /\ g[k] = other[k] * w
  BY <1>1 DEF Parts
<1>8. f[k] # g[k]
  <2> DEFINE a == bytes[k]
             b == other[k]
  <2>1. a \in Nat /\ b \in Nat /\ a # b
    BY <1>1, <1>3
  <2> HIDE DEF a, b, w, f, g
  <2>2. a * w # b * w
    <3>1. a * w - b * w = (a - b) * w
      BY <1>2, <2>1
    <3>2. (a - b) * w # 0
      BY <1>2, <2>1
    <3> QED BY <1>2, <2>1, <3>1, <3>2
  <2> QED BY <1>7, <2>2 DEF a, b
<1>9. IsFiniteSet(S)
  <2>1. 1 \in Int /\ width \in Int
    OBVIOUS
  <2> QED BY <2>1, FS_Interval
<1>10. /\ Wire!Value(bytes) = SumFunctionOnSet(f, S)
       /\ Wire!Value(other) = SumFunctionOnSet(g, S)
  BY <1>1, ValueIs
<1> HIDE DEF f, g, S, w
<1>11. SumFunctionOnSet(f, S) # SumFunctionOnSet(g, S)
  <2>1. k \in S
    BY <1>1
  <2> QED BY <1>5, <1>6, <1>8, <1>9, <2>1, SumDiffers
<1> QED BY <1>10, <1>11

-----------------------------------------------------------------------------
(* THE BRIDGE: frames *)

LEMMA Joined ==
  ASSUME NEW s \in Seq(Int), NEW t \in Seq(Int)
  PROVE  /\ s \o t \in Seq(Int) /\ Len(s \o t) = Len(s) + Len(t)
         /\ \A i \in 1 .. Len(s) : (s \o t)[i] = s[i]
         /\ \A i \in 1 .. Len(t) : (s \o t)[Len(s) + i] = t[i]
OBVIOUS

(* The bytes of a field stand in a frame from an offset on. *)
Holds(frame, offset, bytes) == \A i \in DOMAIN bytes : frame[offset + i] = bytes[i]

Starts(frame, s) == \A i \in 1 .. Len(s) : frame[i] = s[i]

(* A frame that begins with s and then the bytes holds the bytes. *)
LEMMA HeldNext ==
  ASSUME NEW s \in Seq(Int), NEW bytes \in Seq(Int), NEW frame,
         Starts(frame, s \o bytes)
  PROVE  Holds(frame, Len(s), bytes) /\ Starts(frame, s)
<1>1. /\ Len(s) \in Nat /\ Len(bytes) \in Nat /\ DOMAIN bytes = 1 .. Len(bytes)
      /\ Len(s \o bytes) = Len(s) + Len(bytes)
      /\ \A i \in 1 .. Len(s) : (s \o bytes)[i] = s[i]
      /\ \A i \in 1 .. Len(bytes) : (s \o bytes)[Len(s) + i] = bytes[i]
  BY Joined
<1>2. ASSUME NEW i \in 1 .. Len(bytes) PROVE frame[Len(s) + i] = bytes[i]
  <2>1. Len(s) + i \in 1 .. Len(s \o bytes)
    BY <1>1
  <2> QED BY <1>1, <2>1 DEF Starts
<1>3. ASSUME NEW i \in 1 .. Len(s) PROVE frame[i] = s[i]
  <2>1. i \in 1 .. Len(s \o bytes)
    BY <1>1
  <2> QED BY <1>1, <2>1 DEF Starts
<1> QED BY <1>1, <1>2, <1>3 DEF Holds, Starts

LEMMA SubSeqIs ==
  ASSUME NEW s \in Seq(Int), NEW o \in Nat, NEW w \in Nat, o + w <= Len(s)
  PROVE  SubSeq(s, o + 1, o + w) = [i \in 1 .. w |-> s[o + i]]
<1> DEFINE sub == SubSeq(s, o + 1, o + w)
<1>1. /\ sub \in Seq(Int) /\ Len(sub) = w
      /\ \A i \in 1 .. w : sub[i] = s[o + i]
  OBVIOUS
<1> HIDE DEF sub
<1>2. sub = [i \in 1 .. w |-> sub[i]]
  BY <1>1
<1> QED BY <1>1, <1>2 DEF sub

LEMMA FieldNames ==
  DOMAIN Wire!Width = {"magic", "version", "kind", "sequence", "timestamp_ns",
                       "payload_len", "flags"}
BY DEF Wire!Width

LEMMA Layout ==
  /\ Wire!Width.magic = 4 /\ Wire!Offset.magic = 0
  /\ Wire!Width.version = 2 /\ Wire!Offset.version = 4
  /\ Wire!Width.kind = 2 /\ Wire!Offset.kind = 6
  /\ Wire!Width.sequence = 8 /\ Wire!Offset.sequence = 8
  /\ Wire!Width.timestamp_ns = 8 /\ Wire!Offset.timestamp_ns = 16
  /\ Wire!Width.payload_len = 4 /\ Wire!Offset.payload_len = 24
  /\ Wire!Width.flags = 4 /\ Wire!Offset.flags = 28
BY DEF Wire!Offset, Wire!Width

LEMMA FieldsInHeader ==
  ASSUME NEW f \in DOMAIN Wire!Width
  PROVE  /\ Wire!Width[f] \in 1 .. 8 /\ Wire!Offset[f] \in Nat
         /\ Wire!Offset[f] + Wire!Width[f] <= 32
<1>1. CASE f = "magic"
  BY <1>1, Layout
<1>2. CASE f = "version"
  BY <1>2, Layout
<1>3. CASE f = "kind"
  BY <1>3, Layout
<1>4. CASE f = "sequence"
  BY <1>4, Layout
<1>5. CASE f = "timestamp_ns"
  BY <1>5, Layout
<1>6. CASE f = "payload_len"
  BY <1>6, Layout
<1>7. CASE f = "flags"
  BY <1>7, Layout
<1> QED BY <1>1, <1>2, <1>3, <1>4, <1>5, <1>6, <1>7, FieldNames

(* A field is read from the bytes it holds. *)
LEMMA FieldIs ==
  ASSUME NEW frame \in Seq(Int), Len(frame) >= 32, NEW f \in DOMAIN Wire!Width,
         NEW bytes \in [1 .. Wire!Width[f] -> Byte], Holds(frame, Wire!Offset[f], bytes)
  PROVE  Wire!Field(frame, f) = Wire!Value(bytes)
<1> DEFINE o == Wire!Offset[f]
           w == Wire!Width[f]
<1>1. o \in Nat /\ w \in Nat /\ o + w <= 32 /\ Len(frame) \in Nat
  <2>1. o \in Nat /\ w \in 1 .. 8 /\ o + w <= 32
    BY FieldsInHeader, Zenon
  <2>2. Len(frame) \in Nat
    OBVIOUS
  <2> HIDE DEF o, w
  <2> QED BY <2>1, <2>2
<1>2. DOMAIN bytes = 1 .. w /\ bytes = [i \in 1 .. w |-> bytes[i]]
  OBVIOUS
<1>3. \A i \in 1 .. w : frame[o + i] = bytes[i]
  BY <1>2 DEF Holds
<1>4. Wire!Field(frame, f) = Wire!Value(SubSeq(frame, o + 1, o + w))
  BY DEF Wire!Field
<1> HIDE DEF o, w
<1>5. SubSeq(frame, o + 1, o + w) = [i \in 1 .. w |-> frame[o + i]]
  BY <1>1, SubSeqIs
<1>6. SubSeq(frame, o + 1, o + w) = bytes
  BY <1>2, <1>3, <1>5
<1> QED BY <1>4, <1>6

(* A header whose fields have room. *)
Fitting(h) ==
  \A f \in DOMAIN Wire!Width : h[f] \in Nat /\ h[f] < Wire!Weight[Wire!Width[f] + 1]

Bytewise(h, f) == Wire!Bytes(h[f], Wire!Width[f])

LEMMA FieldBytes ==
  ASSUME NEW h, Fitting(h), NEW f \in DOMAIN Wire!Width
  PROVE  /\ Wire!Width[f] \in 1 .. 8
         /\ Bytewise(h, f) \in [1 .. Wire!Width[f] -> Byte]
         /\ Bytewise(h, f) \in Seq(Int) /\ Len(Bytewise(h, f)) = Wire!Width[f]
         /\ Wire!Value(Bytewise(h, f)) = h[f]
<1> DEFINE w == Wire!Width[f]
           n == h[f]
<1>1. w \in 1 .. 8
  BY FieldsInHeader
<1>2. n \in Nat /\ n < Wire!Weight[w + 1]
  BY DEF Fitting
<1> DEFINE b == Wire!Bytes(n, w)
<1> HIDE DEF w, n
<1>3. b \in [1 .. w -> Byte] /\ Wire!Value(b) = n
  BY <1>1, <1>2, ReadBack
<1> HIDE DEF b
<1>4. b \in Seq(Int) /\ Len(b) = w
  <2>1. Byte \subseteq Int
    BY Weights DEF Byte
  <2>2. w \in Nat
    BY <1>1
  <2> HIDE DEF Byte
  <2>3. b \in [1 .. w -> Int]
    BY <1>3, <2>1
  <2> QED BY <2>2, <2>3
<1> QED BY <1>1, <1>3, <1>4 DEF b, w, n, Bytewise

(* A frame as written from a header. *)
Written(frame, h) ==
  /\ frame \in Seq(Int) /\ Len(frame) >= 32
  /\ \A f \in DOMAIN Wire!Width : Holds(frame, Wire!Offset[f], Bytewise(h, f))

LEMMA Encoded ==
  ASSUME NEW h, Fitting(h), NEW payload \in Seq(Int), Len(payload) = h.payload_len
  PROVE  /\ Written(Wire!Encode(h, payload), h)
         /\ Len(Wire!Encode(h, payload)) = 32 + Len(payload)
<1> DEFINE b1 == Bytewise(h, "magic")
           b2 == Bytewise(h, "version")
           b3 == Bytewise(h, "kind")
           b4 == Bytewise(h, "sequence")
           b5 == Bytewise(h, "timestamp_ns")
           b6 == Bytewise(h, "payload_len")
           b7 == Bytewise(h, "flags")
           s1 == b1
           s2 == s1 \o b2
           s3 == s2 \o b3
           s4 == s3 \o b4
           s5 == s4 \o b5
           s6 == s5 \o b6
           s7 == s6 \o b7
           frame == s7 \o payload
<1>1. frame = Wire!Encode(h, payload)
  BY DEF Wire!Encode, Bytewise
<1>2. /\ b1 \in Seq(Int) /\ Len(b1) = 4
      /\ b2 \in Seq(Int) /\ Len(b2) = 2
      /\ b3 \in Seq(Int) /\ Len(b3) = 2
      /\ b4 \in Seq(Int) /\ Len(b4) = 8
      /\ b5 \in Seq(Int) /\ Len(b5) = 8
      /\ b6 \in Seq(Int) /\ Len(b6) = 4
      /\ b7 \in Seq(Int) /\ Len(b7) = 4
  <2>1. \A f \in DOMAIN Wire!Width :
          Bytewise(h, f) \in Seq(Int) /\ Len(Bytewise(h, f)) = Wire!Width[f]
    BY FieldBytes
  <2>2. b1 \in Seq(Int) /\ Len(b1) = 4
    BY <2>1, FieldNames, Layout
  <2>3. b2 \in Seq(Int) /\ Len(b2) = 2
    BY <2>1, FieldNames, Layout
  <2>4. b3 \in Seq(Int) /\ Len(b3) = 2
    BY <2>1, FieldNames, Layout
  <2>5. b4 \in Seq(Int) /\ Len(b4) = 8
    BY <2>1, FieldNames, Layout
  <2>6. b5 \in Seq(Int) /\ Len(b5) = 8
    BY <2>1, FieldNames, Layout
  <2>7. b6 \in Seq(Int) /\ Len(b6) = 4
    BY <2>1, FieldNames, Layout
  <2>8. b7 \in Seq(Int) /\ Len(b7) = 4
    BY <2>1, FieldNames, Layout
  <2> QED BY <2>2, <2>3, <2>4, <2>5, <2>6, <2>7, <2>8
<1> HIDE DEF b1, b2, b3, b4, b5, b6, b7
<1>3. s1 \in Seq(Int) /\ Len(s1) = 4
  BY <1>2
<1>4. s2 \in Seq(Int) /\ Len(s2) = 6
  <2> HIDE DEF s1
  <2>1. s2 \in Seq(Int) /\ Len(s2) = Len(s1) + Len(b2)
    BY <1>2, <1>3, Joined, Zenon
  <2> HIDE DEF s2
  <2> QED BY <1>2, <1>3, <2>1
<1>5. s3 \in Seq(Int) /\ Len(s3) = 8
  <2> HIDE DEF s2
  <2>1. s3 \in Seq(Int) /\ Len(s3) = Len(s2) + Len(b3)
    BY <1>2, <1>4, Joined, Zenon
  <2> HIDE DEF s3
  <2> QED BY <1>2, <1>4, <2>1
<1>6. s4 \in Seq(Int) /\ Len(s4) = 16
  <2> HIDE DEF s3
  <2>1. s4 \in Seq(Int) /\ Len(s4) = Len(s3) + Len(b4)
    BY <1>2, <1>5, Joined, Zenon
  <2> HIDE DEF s4
  <2> QED BY <1>2, <1>5, <2>1
<1>7. s5 \in Seq(Int) /\ Len(s5) = 24
  <2> HIDE DEF s4
  <2>1. s5 \in Seq(Int) /\ Len(s5) = Len(s4) + Len(b5)
    BY <1>2, <1>6, Joined, Zenon
  <2> HIDE DEF s5
  <2> QED BY <1>2, <1>6, <2>1
<1>8. s6 \in Seq(Int) /\ Len(s6) = 28
  <2> HIDE DEF s5
  <2>1. s6 \in Seq(Int) /\ Len(s6) = Len(s5) + Len(b6)
    BY <1>2, <1>7, Joined, Zenon
  <2> HIDE DEF s6
  <2> QED BY <1>2, <1>7, <2>1
<1>9. s7 \in Seq(Int) /\ Len(s7) = 32
  <2> HIDE DEF s6
  <2>1. s7 \in Seq(Int) /\ Len(s7) = Len(s6) + Len(b7)
    BY <1>2, <1>8, Joined, Zenon
  <2> HIDE DEF s7
  <2> QED BY <1>2, <1>8, <2>1
<1>10. frame \in Seq(Int) /\ Len(frame) = 32 + Len(payload)
  <2> HIDE DEF s7
  <2>1. frame \in Seq(Int) /\ Len(frame) = Len(s7) + Len(payload)
    BY <1>9, Joined, Zenon
  <2> HIDE DEF frame
  <2> QED BY <1>9, <2>1
<1>11. Starts(frame, s7)
  <2> HIDE DEF s7
  <2>1. \A i \in 1 .. Len(s7) : frame[i] = s7[i]
    BY <1>9, Joined, Zenon
  <2> QED BY <2>1 DEF Starts
<1> HIDE DEF frame
<1>12. Holds(frame, 28, b7) /\ Starts(frame, s6)
  <2> HIDE DEF s6
  <2>1. s6 \in Seq(Int) /\ b7 \in Seq(Int)
    BY <1>2, <1>8
  <2>2. Starts(frame, s6 \o b7)
    BY <1>11
  <2>3. Holds(frame, Len(s6), b7) /\ Starts(frame, s6)
    BY <2>1, <2>2, HeldNext, Zenon
  <2> QED BY <1>8, <2>3
<1>13. Holds(frame, 24, b6) /\ Starts(frame, s5)
  <2> HIDE DEF s5
  <2>1. s5 \in Seq(Int) /\ b6 \in Seq(Int)
    BY <1>2, <1>7
  <2>2. Starts(frame, s5 \o b6)
    BY <1>12
  <2>3. Holds(frame, Len(s5), b6) /\ Starts(frame, s5)
    BY <2>1, <2>2, HeldNext, Zenon
  <2> QED BY <1>7, <2>3
<1>14. Holds(frame, 16, b5) /\ Starts(frame, s4)
  <2> HIDE DEF s4
  <2>1. s4 \in Seq(Int) /\ b5 \in Seq(Int)
    BY <1>2, <1>6
  <2>2. Starts(frame, s4 \o b5)
    BY <1>13
  <2>3. Holds(frame, Len(s4), b5) /\ Starts(frame, s4)
    BY <2>1, <2>2, HeldNext, Zenon
  <2> QED BY <1>6, <2>3
<1>15. Holds(frame, 8, b4) /\ Starts(frame, s3)
  <2> HIDE DEF s3
  <2>1. s3 \in Seq(Int) /\ b4 \in Seq(Int)
    BY <1>2, <1>5
  <2>2. Starts(frame, s3 \o b4)
    BY <1>14
  <2>3. Holds(frame, Len(s3), b4) /\ Starts(frame, s3)
    BY <2>1, <2>2, HeldNext, Zenon
  <2> QED BY <1>5, <2>3
<1>16. Holds(frame, 6, b3) /\ Starts(frame, s2)
  <2> HIDE DEF s2
  <2>1. s2 \in Seq(Int) /\ b3 \in Seq(Int)
    BY <1>2, <1>4
  <2>2. Starts(frame, s2 \o b3)
    BY <1>15
  <2>3. Holds(frame, Len(s2), b3) /\ Starts(frame, s2)
    BY <2>1, <2>2, HeldNext, Zenon
  <2> QED BY <1>4, <2>3
<1>17. Holds(frame, 4, b2) /\ Starts(frame, s1)
  <2> HIDE DEF s1
  <2>1. s1 \in Seq(Int) /\ b2 \in Seq(Int)
    BY <1>2, <1>3
  <2>2. Starts(frame, s1 \o b2)
    BY <1>16
  <2>3. Holds(frame, Len(s1), b2) /\ Starts(frame, s1)
    BY <2>1, <2>2, HeldNext, Zenon
  <2> QED BY <1>3, <2>3
<1>18. Holds(frame, 0, b1)
  <2>1. DOMAIN b1 = 1 .. Len(b1)
    BY <1>2
  <2>2. \A i \in 1 .. Len(b1) : 0 + i = i
    BY <1>2
  <2>3. \A i \in 1 .. Len(b1) : frame[i] = b1[i]
    BY <1>17 DEF Starts
  <2> QED BY <2>1, <2>2, <2>3 DEF Holds
<1>19. ASSUME NEW f \in DOMAIN Wire!Width
      PROVE  Holds(frame, Wire!Offset[f], Bytewise(h, f))
  <2>1. \/ f = "magic" \/ f = "version" \/ f = "kind" \/ f = "sequence"
        \/ f = "timestamp_ns" \/ f = "payload_len" \/ f = "flags"
    BY FieldNames
  <2> QED BY <1>12, <1>13, <1>14, <1>15, <1>16, <1>17, <1>18, <2>1, Layout
       DEF b1, b2, b3, b4, b5, b6, b7
<1> QED
  <2>1. Len(frame) >= 32
    BY <1>10
  <2> QED BY <1>1, <1>10, <1>19, <2>1 DEF Written

LEMMA Decoded ==
  ASSUME NEW h, Fitting(h), NEW frame, Written(frame, h)
  PROVE  \A f \in DOMAIN Wire!Width : Wire!Field(frame, f) = h[f]
<1> SUFFICES ASSUME NEW f \in DOMAIN Wire!Width PROVE Wire!Field(frame, f) = h[f]
  OBVIOUS
<1>1. /\ Bytewise(h, f) \in [1 .. Wire!Width[f] -> Byte]
      /\ Wire!Value(Bytewise(h, f)) = h[f]
  BY FieldBytes
<1>2. frame \in Seq(Int) /\ Len(frame) >= 32 /\ Holds(frame, Wire!Offset[f], Bytewise(h, f))
  BY DEF Written
<1> QED BY <1>1, <1>2, FieldIs

(* A header as the sender makes it, and the frame it writes for it. *)
HeaderOf(kin, length, n) ==
  [magic |-> Magic, version |-> Version, kind |-> kin, sequence |-> n,
   timestamp_ns |-> n, payload_len |-> length, flags |-> 0]
IsHeader(h, n) == \E kin \in Kinds, length \in 0 .. 1 : h = HeaderOf(kin, length, n)
FrameOf(h) == Wire!Encode(h, [i \in 1 .. h.payload_len |-> 1])

LEMMA HeaderFits ==
  ASSUME NEW n \in 0 .. MaxFrames, NEW h, IsHeader(h, n)
  PROVE  /\ Fitting(h)
         /\ h.magic = Magic /\ h.version = Version /\ h.sequence = n
         /\ h.payload_len \in 0 .. 1
         /\ h = [f \in DOMAIN Wire!Width |-> h[f]]
<1>1. PICK kin \in Kinds, length \in 0 .. 1 : h = HeaderOf(kin, length, n)
  BY DEF IsHeader
<1>2. /\ Version \in Nat /\ Version < Wire!Weight[3]
      /\ kin \in Nat /\ kin < Wire!Weight[3]
      /\ Magic \in Nat /\ Magic < Wire!Weight[5]
      /\ MaxFrames \in Nat /\ MaxFrames < Wire!Weight[9]
  BY ComponentsAssumption DEF Wire!BridgeAssumption
<1>3. /\ h.magic = Magic /\ h.version = Version /\ h.kind = kin /\ h.sequence = n
      /\ h.timestamp_ns = n /\ h.payload_len = length /\ h.flags = 0
      /\ h = [f \in DOMAIN Wire!Width |-> h[f]]
  BY <1>1, FieldNames DEF HeaderOf
<1>4. Wire!Weight[5] \in Nat /\ Wire!Weight[5] > 1 /\ Wire!Weight[9] \in Nat
  BY FieldLimits
<1>5. /\ n \in Nat /\ n < Wire!Weight[9] /\ length \in Nat /\ length < Wire!Weight[5]
      /\ 0 \in Nat /\ 0 < Wire!Weight[5]
  <2>1. n <= MaxFrames /\ n \in Nat
    BY <1>2
  <2> QED BY <1>2, <1>4, <2>1
<1>6. ASSUME NEW f \in DOMAIN Wire!Width
      PROVE  h[f] \in Nat /\ h[f] < Wire!Weight[Wire!Width[f] + 1]
  <2>1. \/ f = "magic" \/ f = "version" \/ f = "kind" \/ f = "sequence"
        \/ f = "timestamp_ns" \/ f = "payload_len" \/ f = "flags"
    BY FieldNames
  <2>2. 2 + 1 = 3 /\ 4 + 1 = 5 /\ 8 + 1 = 9
    OBVIOUS
  <2> QED BY <1>2, <1>3, <1>5, <2>1, <2>2, Layout
<1> QED BY <1>3, <1>6 DEF Fitting

LEMMA Ones ==
  ASSUME NEW n \in 0 .. 1
  PROVE  [i \in 1 .. n |-> 1] \in Seq(Int) /\ Len([i \in 1 .. n |-> 1]) = n
<1> DEFINE s == [i \in 1 .. n |-> 1]
<1>1. n \in Nat /\ s \in [1 .. n -> Int]
  OBVIOUS
<1> HIDE DEF s
<1>2. s \in Seq(Int) /\ Len(s) = n
  BY <1>1
<1> QED BY <1>2 DEF s

(* What the readers say of a frame that arrives as it was written. *)
LEMMA Intact ==
  ASSUME NEW n \in 0 .. MaxFrames, NEW h, IsHeader(h, n)
  PROVE  /\ Written(FrameOf(h), h) /\ Len(FrameOf(h)) = 32 + h.payload_len
         /\ \A f \in DOMAIN Wire!Width : Wire!Field(FrameOf(h), f) = h[f]
         /\ Wire!Decode(FrameOf(h)) = h
         /\ \A P : Wire!RustAccepts(FrameOf(h), P) <=> \A q \in P : n > q
         /\ \A q : Wire!CppAccepts(FrameOf(h), q) <=> n > q
<1> DEFINE frame == FrameOf(h)
           payload == [i \in 1 .. h.payload_len |-> 1]
<1>1. /\ Fitting(h) /\ h.magic = Magic /\ h.version = Version /\ h.sequence = n
      /\ h.payload_len \in 0 .. 1 /\ h = [f \in DOMAIN Wire!Width |-> h[f]]
  BY HeaderFits
<1>2. payload \in Seq(Int) /\ Len(payload) = h.payload_len
  BY <1>1, Ones
<1>3. frame = Wire!Encode(h, payload)
  BY DEF FrameOf
<1> HIDE DEF frame, payload
<1>4. Written(frame, h) /\ Len(frame) = 32 + h.payload_len
  BY <1>1, <1>2, <1>3, Encoded
<1>5. \A f \in DOMAIN Wire!Width : Wire!Field(frame, f) = h[f]
  BY <1>1, <1>4, Decoded
<1>6. Wire!Decode(frame) = h
  BY <1>1, <1>5 DEF Wire!Decode
<1>7. /\ Wire!Field(frame, "magic") = Magic /\ Wire!Field(frame, "version") = Version
      /\ Wire!Field(frame, "sequence") = n
      /\ Wire!Field(frame, "payload_len") = h.payload_len
  BY <1>1, <1>5, FieldNames
<1>8. Len(frame) >= 32 /\ Len(frame) = 32 + h.payload_len /\ h.payload_len + 32 = Len(frame)
      /\ ~(Len(frame) < 32)
  BY <1>1, <1>4
<1>9. \A P : Wire!RustAccepts(frame, P) <=> \A q \in P : n > q
  BY <1>7, <1>8 DEF Wire!RustAccepts, Wire!HeaderLength
<1>10. \A q : Wire!CppAccepts(frame, q) <=> n > q
  BY <1>7, <1>8 DEF Wire!CppAccepts, Wire!HeaderLength
<1> QED BY <1>4, <1>5, <1>6, <1>9, <1>10 DEF frame

(* A frame that neither reader accepts, whatever it accepted last. *)
Rejected(frame) == \A P, q : ~Wire!RustAccepts(frame, P) /\ ~Wire!CppAccepts(frame, q)

(* A frame whose length is not the one it claims is refused. *)
LEMMA WrongLength ==
  ASSUME NEW h, Fitting(h), NEW other \in Seq(Int), Len(other) # 32 + h.payload_len,
         Len(other) >= 32 => Holds(other, 24, Bytewise(h, "payload_len"))
  PROVE  Rejected(other)
<1>1. Len(other) \in Nat
  OBVIOUS
<1>2. CASE Len(other) < 32
  BY <1>1, <1>2 DEF Wire!RustAccepts, Wire!CppAccepts, Wire!HeaderLength, Rejected
<1>3. CASE Len(other) >= 32
  <2>1. "payload_len" \in DOMAIN Wire!Width /\ Wire!Offset["payload_len"] = 24
    BY FieldNames, Layout
  <2>2. /\ Bytewise(h, "payload_len") \in [1 .. Wire!Width["payload_len"] -> Byte]
        /\ Wire!Value(Bytewise(h, "payload_len")) = h["payload_len"]
    BY <2>1, FieldBytes
  <2>3. Holds(other, Wire!Offset["payload_len"], Bytewise(h, "payload_len"))
    BY <1>3, <2>1
  <2>4. Wire!Field(other, "payload_len") = h["payload_len"]
    BY <1>3, <2>1, <2>2, <2>3, FieldIs
  <2>5. h["payload_len"] \in Nat /\ h["payload_len"] + 32 # Len(other)
    BY <1>1, <2>1 DEF Fitting
  <2> QED BY <2>4, <2>5 DEF Wire!RustAccepts, Wire!CppAccepts, Wire!HeaderLength, Rejected
<1> QED BY <1>1, <1>2, <1>3

Flip(frame, p) == [frame EXCEPT ![p] = (@ + 1) % Base]

(* With another byte in it a field is read as another number. *)
LEMMA OtherField ==
  ASSUME NEW h, Fitting(h), NEW frame, Written(frame, h), NEW f \in DOMAIN Wire!Width,
         NEW k \in 1 .. Wire!Width[f], NEW p, p = Wire!Offset[f] + k, NEW other,
         other = Flip(frame, p)
  PROVE  /\ other \in Seq(Int) /\ Len(other) = Len(frame)
         /\ Wire!Field(other, f) # h[f] /\ Wire!Field(other, f) \in Int
<1> DEFINE o == Wire!Offset[f]
           w == Wire!Width[f]
           bytes == Bytewise(h, f)
           others == [bytes EXCEPT ![k] = (@ + 1) % Base]
<1>1. w \in 1 .. 8 /\ o \in Nat /\ o + w <= 32
  BY FieldsInHeader
<1>2. bytes \in [1 .. w -> Byte] /\ Wire!Value(bytes) = h[f]
  BY FieldBytes
<1>3. /\ frame \in Seq(Int) /\ Len(frame) \in Nat /\ Len(frame) >= 32
      /\ Holds(frame, o, bytes)
  BY DEF Written
<1>4. k \in 1 .. w /\ p = o + k /\ other = [frame EXCEPT ![p] = (frame[p] + 1) % Base]
  BY DEF Flip
<1> HIDE DEF o, w, bytes
<1>5. DOMAIN bytes = 1 .. w /\ \A i \in 1 .. w : bytes[i] \in Byte
  BY <1>2
<1>6. \A i \in 1 .. w : frame[o + i] = bytes[i]
  BY <1>3, <1>5 DEF Holds
<1>7. frame[p] = bytes[k] /\ p \in 1 .. Len(frame)
  <2>1. frame[p] = bytes[k]
    BY <1>4, <1>6
  <2>2. k \in Nat /\ k >= 1 /\ k <= w /\ w \in Nat
    BY <1>1, <1>4
  <2> QED BY <1>1, <1>3, <1>4, <2>1, <2>2
<1> DEFINE b == (bytes[k] + 1) % Base
<1>8. b \in Byte /\ b # bytes[k] /\ b \in Int
  <2> DEFINE c == bytes[k]
  <2>1. c \in Byte
    BY <1>4, <1>5
  <2> HIDE DEF c
  <2>2. (c + 1) % Base \in Byte /\ (c + 1) % Base # c /\ (c + 1) % Base \in Int
    BY <2>1, NextByte
  <2> QED BY <2>2 DEF c
<1>9. other = [frame EXCEPT ![p] = b]
  BY <1>4, <1>7
<1>10. others = [bytes EXCEPT ![k] = b]
  BY <1>4, <1>5
<1> HIDE DEF b, others
<1>11. /\ other \in Seq(Int) /\ Len(other) = Len(frame)
       /\ other[p] = b /\ \A i \in 1 .. Len(frame) : i # p => other[i] = frame[i]
  BY <1>3, <1>7, <1>8, <1>9
<1>12. /\ others \in [1 .. w -> Byte] /\ others[k] = b
       /\ \A i \in (1 .. w) \ {k} : others[i] = bytes[i]
  BY <1>2, <1>4, <1>8, <1>10
<1>13. Holds(other, o, others)
  <2>1. DOMAIN others = 1 .. w
    BY <1>12
  <2>2. ASSUME NEW i \in 1 .. w PROVE other[o + i] = others[i]
    <3>1. CASE i = k
      BY <1>4, <1>11, <1>12, <3>1
    <3>2. CASE i # k
      <4>1. o + i \in 1 .. Len(frame) /\ o + i # p
        BY <1>1, <1>3, <1>4, <3>2
      <4> QED BY <1>6, <1>11, <1>12, <3>2, <4>1
    <3> QED BY <3>1, <3>2
  <2> QED BY <2>1, <2>2 DEF Holds
<1>14. Len(other) >= 32
  BY <1>3, <1>11
<1>15. Wire!Field(other, f) = Wire!Value(others)
  BY <1>11, <1>12, <1>13, <1>14, FieldIs DEF o, w
<1>16. Wire!Value(others) # Wire!Value(bytes)
  BY <1>1, <1>2, <1>4, <1>8, <1>12, OtherValue
<1>17. Wire!Value(others) \in Int
  BY <1>1, <1>12, ValueIsNumber
<1> QED BY <1>2, <1>11, <1>15, <1>16, <1>17

(* A frame that arrives changed is refused. *)
LEMMA ChangedRejected ==
  ASSUME NEW n \in 0 .. MaxFrames, NEW h, IsHeader(h, n),
         NEW other \in Wire!Resized(FrameOf(h)) \cup Wire!Changed(FrameOf(h))
  PROVE  Rejected(other)
<1> DEFINE frame == FrameOf(h)
<1>1. /\ Fitting(h) /\ h.magic = Magic /\ h.version = Version
      /\ h.payload_len \in 0 .. 1
  BY HeaderFits
<1>2. Written(frame, h) /\ Len(frame) = 32 + h.payload_len
  BY Intact
<1>3. /\ frame \in Seq(Int) /\ Len(frame) \in Nat /\ Len(frame) >= 32
      /\ Holds(frame, 24, Bytewise(h, "payload_len"))
  BY <1>2, FieldNames, Layout, SMTT(30) DEF Written
<1>4. /\ DOMAIN Bytewise(h, "payload_len") = 1 .. 4
      /\ \A i \in 1 .. 4 : frame[24 + i] = Bytewise(h, "payload_len")[i]
  <2>1. Bytewise(h, "payload_len") \in [1 .. Wire!Width["payload_len"] -> Byte]
    BY <1>1, FieldBytes, FieldNames
  <2>2. DOMAIN Bytewise(h, "payload_len") = 1 .. 4
    BY <2>1, Layout
  <2> QED BY <1>3, <2>2 DEF Holds
<1> HIDE DEF frame
<1>5. CASE other = SubSeq(frame, 1, Len(frame) - 1)
  <2>1. /\ other \in Seq(Int) /\ Len(other) = Len(frame) - 1
        /\ \A i \in 1 .. Len(frame) - 1 : other[i] = frame[i]
    BY <1>3, <1>5
  <2>2. ASSUME Len(other) >= 32 PROVE Holds(other, 24, Bytewise(h, "payload_len"))
    <3> DEFINE m == Len(frame) - 1
    <3>1. m \in Nat /\ m >= 32
      BY <1>3, <2>1, <2>2
    <3> HIDE DEF m
    <3>2. \A i \in 1 .. 4 : 24 + i \in 1 .. m
      BY <3>1
    <3> QED BY <1>4, <2>1, <3>2 DEF Holds, m
  <2>3. Len(other) # 32 + h.payload_len
    BY <1>1, <1>2, <2>1
  <2> QED BY <1>1, <2>1, <2>2, <2>3, WrongLength
<1>6. CASE other = Append(frame, 0)
  <2>1. /\ other \in Seq(Int) /\ Len(other) = Len(frame) + 1
        /\ \A i \in 1 .. Len(frame) : other[i] = frame[i]
    BY <1>3, <1>6
  <2>2. Holds(other, 24, Bytewise(h, "payload_len"))
    <3>1. \A i \in 1 .. 4 : 24 + i \in 1 .. Len(frame)
      BY <1>3
    <3> QED BY <1>4, <2>1, <3>1 DEF Holds
  <2>3. Len(other) # 32 + h.payload_len
    BY <1>1, <1>2, <2>1
  <2> QED BY <1>1, <2>1, <2>2, <2>3, WrongLength
<1>7. ASSUME NEW p \in {5, 6}, other = Flip(frame, p)
      PROVE  Rejected(other)
  <2> DEFINE k == p - 4
  <2>1. /\ "version" \in DOMAIN Wire!Width /\ k \in 1 .. Wire!Width["version"]
        /\ p = Wire!Offset["version"] + k
    BY FieldNames, Layout
  <2> HIDE DEF k
  <2>2. Wire!Field(other, "version") # h["version"]
    BY <1>1, <1>2, <1>7, <2>1, OtherField
  <2> QED BY <1>1, <2>2 DEF Wire!RustAccepts, Wire!CppAccepts, Rejected
<1>8. ASSUME NEW p \in 25 .. 28, other = Flip(frame, p)
      PROVE  Rejected(other)
  <2> DEFINE k == p - 24
  <2>1. /\ "payload_len" \in DOMAIN Wire!Width /\ k \in 1 .. Wire!Width["payload_len"]
        /\ p = Wire!Offset["payload_len"] + k
    BY FieldNames, Layout
  <2> HIDE DEF k
  <2>2. /\ Len(other) = Len(frame) /\ Wire!Field(other, "payload_len") # h["payload_len"]
        /\ Wire!Field(other, "payload_len") \in Int
    BY <1>1, <1>2, <1>8, <2>1, OtherField
  <2> DEFINE claimed == Wire!Field(other, "payload_len")
  <2>3. claimed # h.payload_len /\ claimed \in Int
    BY <2>2
  <2> HIDE DEF claimed
  <2>4. SUFFICES ASSUME claimed + 32 = Len(other) \/ Len(other) = 32 + claimed PROVE FALSE
    BY DEF claimed, Wire!RustAccepts, Wire!CppAccepts, Wire!HeaderLength, Rejected
  <2> QED BY <1>1, <1>2, <2>2, <2>3, <2>4
<1> DEFINE Flipped == \E p \in {5, 6} \cup 25 .. 28 : other = Flip(frame, p)
<1>9. other = SubSeq(frame, 1, Len(frame) - 1) \/ other = Append(frame, 0) \/ Flipped
  BY DEF Wire!Resized, Wire!Changed, frame, Flip
<1>10. CASE Flipped
  <2>1. PICK p \in {5, 6} \cup 25 .. 28 : other = Flip(frame, p)
    BY <1>10
  <2>2. CASE p \in {5, 6}
    BY <1>7, <2>1, <2>2
  <2>3. CASE p \in 25 .. 28
    BY <1>8, <2>1, <2>3
  <2> QED BY <2>1, <2>2, <2>3
<1> HIDE DEF Flipped
<1>11. Rejected(other)
  BY <1>5, <1>6, <1>9, <1>10
<1> QED
  BY <1>11

-----------------------------------------------------------------------------
(* THE BRIDGE: the readers *)

Headers ==
  [magic : {Magic}, version : {Version}, kind : Kinds, sequence : Nat,
   timestamp_ns : Nat, payload_len : 0 .. 1, flags : {0}]

(* What was accepted is what was sent under its sequence, in its order and *)
(* up to the last sequence.                                                *)
InOrder(out, from, last) ==
  \A i \in 1 .. Len(out) :
    /\ out[i].sequence \in 1 .. last
    /\ out[i] = from[out[i].sequence]
    /\ \A j \in 1 .. i - 1 : out[j].sequence < out[i].sequence

BridgeInv ==
  /\ sent \in Seq(Headers) /\ Len(sent) <= MaxFrames
  /\ \A k \in 1 .. Len(sent) : IsHeader(sent[k], k)
  /\ \A frame \in wire : \E k \in 1 .. Len(sent) : frame = FrameOf(sent[k])
  /\ cpp.previous \in 0 .. Len(sent)
  /\ rust.previous = IF cpp.previous = 0 THEN {} ELSE {cpp.previous}
  /\ rust.out \in Seq(Headers) /\ rust.out = cpp.out
  /\ InOrder(rust.out, sent, cpp.previous)
  /\ cpp.previous # 0 => \E i \in 1 .. Len(rust.out) : rust.out[i].sequence = cpp.previous

LEMMA BridgeInit == Init => BridgeInv
<1> SUFFICES ASSUME Init PROVE BridgeInv
  OBVIOUS
<1>1. /\ sent = << >> /\ wire = {} /\ rust.previous = {} /\ rust.out = << >>
      /\ cpp.previous = 0 /\ cpp.out = << >>
  BY DEF Init, Wire!Init
<1>2. MaxFrames \in Nat
  BY ComponentsAssumption DEF Wire!BridgeAssumption
<1> QED BY <1>1, <1>2 DEF BridgeInv, InOrder

(* Appending keeps what was there. *)
LEMMA Appended ==
  ASSUME NEW S, NEW s \in Seq(S), NEW e \in S
  PROVE  /\ Append(s, e) \in Seq(S) /\ Len(s) \in Nat /\ Len(Append(s, e)) = Len(s) + 1
         /\ \A i \in 1 .. Len(s) : Append(s, e)[i] = s[i]
         /\ Append(s, e)[Len(s) + 1] = e
OBVIOUS

LEMMA SendKeeps == ASSUME BridgeInv, Wire!Send PROVE BridgeInv'
<1>1. PICK kin \in Kinds, length \in 0 .. 1 :
        LET header == Wire!Header(kin, length) IN
        /\ sent' = Append(sent, header)
        /\ wire' = wire \cup {Wire!Encode(header, [i \in 1 .. length |-> 1])}
  BY DEF Wire!Send
<1> DEFINE n == Len(sent) + 1
           h == HeaderOf(kin, length, n)
<1>2. Wire!Header(kin, length) = h
  BY DEF Wire!Header, HeaderOf
<1>3. /\ sent' = Append(sent, h) /\ wire' = wire \cup {FrameOf(h)}
      /\ UNCHANGED <<rust, cpp>> /\ Len(sent) < MaxFrames
  <2>1. h.payload_len = length
    BY DEF HeaderOf
  <2>2. FrameOf(h) = Wire!Encode(h, [i \in 1 .. length |-> 1])
    BY <2>1 DEF FrameOf
  <2> HIDE DEF h
  <2> QED BY <1>1, <1>2, <2>2 DEF Wire!Send
<1>4. h \in Headers /\ IsHeader(h, n)
  <2>1. n \in Nat
    BY DEF BridgeInv
  <2> QED BY <2>1 DEF HeaderOf, Headers, IsHeader
<1> HIDE DEF h, Headers
<1>5. sent \in Seq(Headers) /\ Len(sent) \in Nat /\ MaxFrames \in Nat
  BY ComponentsAssumption DEF BridgeInv, Wire!BridgeAssumption
<1>6. /\ sent' \in Seq(Headers) /\ Len(sent') = Len(sent) + 1
      /\ \A i \in 1 .. Len(sent) : sent'[i] = sent[i]
      /\ sent'[n] = h
  BY <1>3, <1>4, <1>5, Appended
<1>7. Len(sent') <= MaxFrames
  BY <1>3, <1>5, <1>6
<1>8. \A k \in 1 .. Len(sent') : IsHeader(sent'[k], k)
  BY <1>4, <1>5, <1>6 DEF BridgeInv
<1>9. \A frame \in wire' : \E k \in 1 .. Len(sent') : frame = FrameOf(sent'[k])
  <2>1. n \in 1 .. Len(sent') /\ 1 .. Len(sent) \subseteq 1 .. Len(sent')
    BY <1>5, <1>6
  <2> QED BY <1>3, <1>6, <2>1 DEF BridgeInv
<1>10. cpp.previous \in 0 .. Len(sent) /\ cpp'.previous \in 0 .. Len(sent')
  BY <1>3, <1>5, <1>6 DEF BridgeInv
<1>11. InOrder(rust.out, sent', cpp.previous)
  <2>1. ASSUME NEW i \in 1 .. Len(rust.out) PROVE rust.out[i] = sent'[rust.out[i].sequence]
    <3>1. rust.out[i].sequence \in 1 .. Len(sent)
      BY <1>5, <1>10 DEF BridgeInv, InOrder
    <3> QED BY <1>6, <3>1 DEF BridgeInv, InOrder
  <2> QED BY <2>1 DEF BridgeInv, InOrder
<1> QED BY <1>3, <1>6, <1>7, <1>8, <1>9, <1>10, <1>11 DEF BridgeInv

LEMMA DeliverKeeps == ASSUME BridgeInv, Wire!Deliver PROVE BridgeInv'
<1>0. PICK frame \in wire :
        \E received \in {frame} \cup Wire!Resized(frame) \cup Wire!Changed(frame) :
          Wire!Arrive(received)
  BY DEF Wire!Deliver
<1>1. PICK received \in {frame} \cup Wire!Resized(frame) \cup Wire!Changed(frame) :
        Wire!Arrive(received)
  BY <1>0
<1>2. PICK k \in 1 .. Len(sent) : frame = FrameOf(sent[k])
  BY DEF BridgeInv
<1> DEFINE h == sent[k]
<1>3. /\ sent \in Seq(Headers) /\ Len(sent) \in Nat /\ MaxFrames \in Nat
      /\ Len(sent) <= MaxFrames
      /\ cpp.previous \in 0 .. Len(sent) /\ cpp.previous \in Nat
  BY ComponentsAssumption DEF BridgeInv, Wire!BridgeAssumption
<1>4. k \in 0 .. MaxFrames /\ k \in Nat /\ k >= 1 /\ IsHeader(h, k) /\ h \in Headers
  BY <1>3 DEF BridgeInv
<1>5. h.sequence = k
  BY <1>4, HeaderFits
<1> HIDE DEF h, Headers
<1>6. UNCHANGED <<sent, wire>>
  BY <1>1 DEF Wire!Arrive
<1>7. CASE /\ ~Wire!RustAccepts(received, rust.previous)
           /\ ~Wire!CppAccepts(received, cpp.previous)
  <2>1. UNCHANGED <<rust, cpp>>
    BY <1>1, <1>7 DEF Wire!Arrive
  <2> QED BY <1>6, <2>1 DEF BridgeInv
<1>8. CASE received # frame
  <2>1. received \in Wire!Resized(FrameOf(h)) \cup Wire!Changed(FrameOf(h))
    BY <1>1, <1>2, <1>8 DEF h
  <2>2. Rejected(received)
    BY <1>4, <2>1, ChangedRejected
  <2> QED BY <1>7, <2>2 DEF Rejected
<1>9. CASE received = frame
  <2>1. received = FrameOf(h)
    BY <1>2, <1>9 DEF h
  <2>2. /\ Wire!Field(received, "sequence") = k /\ Wire!Decode(received) = h
        /\ \A P : Wire!RustAccepts(received, P) <=> \A q \in P : k > q
        /\ \A q : Wire!CppAccepts(received, q) <=> k > q
    BY <1>4, <1>5, <2>1, Intact, FieldNames
  <2>3. Wire!RustAccepts(received, rust.previous) <=> k > cpp.previous
    <3>1. CASE cpp.previous = 0
      BY <1>4, <2>2, <3>1 DEF BridgeInv
    <3>2. CASE cpp.previous # 0
      BY <2>2, <3>2 DEF BridgeInv
    <3> QED BY <3>1, <3>2
  <2>4. CASE ~(k > cpp.previous)
    BY <1>7, <2>2, <2>3, <2>4
  <2>5. CASE k > cpp.previous
    <3>1. /\ rust' = [previous |-> {k}, out |-> Append(rust.out, h)]
          /\ cpp' = [previous |-> k, out |-> Append(cpp.out, h)]
      BY <1>1, <2>2, <2>3, <2>5 DEF Wire!Arrive
    <3>2. /\ rust'.previous = {k} /\ rust'.out = Append(rust.out, h)
          /\ cpp'.previous = k /\ cpp'.out = Append(rust.out, h)
      BY <3>1 DEF BridgeInv
    <3> DEFINE out == rust.out
    <3>3. out \in Seq(Headers) /\ InOrder(out, sent, cpp.previous)
      BY DEF BridgeInv
    <3>4. /\ rust'.out \in Seq(Headers) /\ Len(out) \in Nat /\ Len(rust'.out) = Len(out) + 1
          /\ \A i \in 1 .. Len(out) : rust'.out[i] = out[i]
          /\ rust'.out[Len(out) + 1] = h
      BY <1>4, <3>2, <3>3, Appended
    <3> HIDE DEF out
    <3>5. InOrder(rust'.out, sent, k)
      <4>1. ASSUME NEW i \in 1 .. Len(out)
            PROVE  out[i].sequence \in 1 .. cpp.previous /\ out[i].sequence \in 1 .. k
                   /\ out[i].sequence < k /\ out[i] = sent[out[i].sequence]
                   /\ \A j \in 1 .. i - 1 : out[j].sequence < out[i].sequence
        BY <1>3, <1>4, <2>5, <3>3 DEF InOrder
      <4>2. ASSUME NEW i \in 1 .. Len(rust'.out)
            PROVE  /\ rust'.out[i].sequence \in 1 .. k
                   /\ rust'.out[i] = sent[rust'.out[i].sequence]
                   /\ \A j \in 1 .. i - 1 : rust'.out[j].sequence < rust'.out[i].sequence
        <5>1. CASE i \in 1 .. Len(out)
          <6>1. \A j \in 1 .. i - 1 : j \in 1 .. Len(out)
            BY <3>4, <5>1
          <6> QED BY <3>4, <4>1, <5>1, <6>1
        <5>2. CASE i = Len(out) + 1
          <6>1. rust'.out[i] = h /\ h = sent[k] /\ k \in 1 .. k
            BY <1>4, <3>4, <5>2 DEF h
          <6>2. \A j \in 1 .. i - 1 : j \in 1 .. Len(out)
            BY <3>4, <5>2
          <6> QED BY <1>5, <3>4, <4>1, <6>1, <6>2
        <5>3. i \in 1 .. Len(out) \/ i = Len(out) + 1
          BY <3>4
        <5> QED BY <5>1, <5>2, <5>3
      <4> QED BY <4>2 DEF InOrder
    <3>6. k \in 0 .. Len(sent) /\ k # 0
      BY <1>3, <1>4
    <3>7. \E i \in 1 .. Len(rust'.out) : rust'.out[i].sequence = k
      BY <1>5, <3>4
    <3> QED BY <1>6, <3>2, <3>4, <3>5, <3>6, <3>7 DEF BridgeInv
  <2> QED BY <2>4, <2>5
<1> QED BY <1>8, <1>9

LEMMA BridgeNext == BridgeInv /\ [Next]_all => BridgeInv'
<1> SUFFICES ASSUME BridgeInv, [Next]_all PROVE BridgeInv'
  OBVIOUS
<1>1. CASE BridgeStep
  BY <1>1, SendKeeps, DeliverKeeps DEF BridgeStep, Wire!Next
<1>2. CASE ~BridgeStep
  <2>1. UNCHANGED wireVars
    BY <1>2 DEF Next, StreamStep, StoreStep, PolicyStep, PoolStep, MasterStep, QuotesStep, all
  <2> QED BY <2>1 DEF wireVars, BridgeInv
<1> QED BY <1>1, <1>2

(* Whatever is lost, repeated, reordered, cut, lengthened or changed in    *)
(* version or length: readers in both languages accept the same frames,    *)
(* each as it was sent, at most once and in the order of the sequence, and *)
(* each that is ahead of all accepted, whatever is missing before it.      *)
THEOREM FramesOrdered == Spec => []BridgeInOrder
<1>1. BridgeInv => BridgeInOrder
  <2> SUFFICES ASSUME BridgeInv PROVE BridgeInOrder
    OBVIOUS
  <2>1. DOMAIN rust.out = 1 .. Len(rust.out)
    BY DEF BridgeInv
  <2>2. /\ rust.out = cpp.out
        /\ \A i \in DOMAIN rust.out :
             /\ rust.out[i] = sent[rust.out[i].sequence]
             /\ \A j \in 1 .. i - 1 : rust.out[j].sequence < rust.out[i].sequence
    BY <2>1 DEF BridgeInv, InOrder
  <2>3. ASSUME NEW frame \in wire
        PROVE  LET ahead == \A i \in DOMAIN rust.out :
                              rust.out[i].sequence < Wire!Field(frame, "sequence") IN
               /\ Wire!RustAccepts(frame, rust.previous) = ahead
               /\ Wire!CppAccepts(frame, cpp.previous) = ahead
    <3>1. PICK k \in 1 .. Len(sent) : frame = FrameOf(sent[k])
      BY DEF BridgeInv
    <3> DEFINE h == sent[k]
               ahead == \A i \in 1 .. Len(rust.out) : rust.out[i].sequence < k
    <3>2. /\ Len(sent) \in Nat /\ MaxFrames \in Nat /\ Len(sent) <= MaxFrames
          /\ cpp.previous \in Nat
      BY ComponentsAssumption DEF BridgeInv, Wire!BridgeAssumption
    <3>3. k \in 0 .. MaxFrames /\ k \in Nat /\ k >= 1 /\ IsHeader(h, k)
      BY <3>2 DEF BridgeInv
    <3>4. h.sequence = k
      BY <3>3, HeaderFits
    <3> HIDE DEF h
    <3>5. /\ Wire!Field(frame, "sequence") = k
          /\ \A P : Wire!RustAccepts(frame, P) <=> \A q \in P : k > q
          /\ \A q : Wire!CppAccepts(frame, q) <=> k > q
      BY <3>1, <3>3, <3>4, Intact, FieldNames DEF h
    <3>6. (\A q \in rust.previous : k > q) <=> k > cpp.previous
      BY <3>2, <3>3 DEF BridgeInv
    <3>7. ahead <=> k > cpp.previous
      <4>1. \A i \in 1 .. Len(rust.out) :
              rust.out[i].sequence \in 1 .. cpp.previous
        BY DEF BridgeInv, InOrder
      <4>2. cpp.previous = 0 \/ \E i \in 1 .. Len(rust.out) : rust.out[i].sequence = cpp.previous
        BY DEF BridgeInv
      <4>3. CASE k > cpp.previous
        BY <3>2, <3>3, <4>1, <4>3
      <4>4. CASE ~(k > cpp.previous)
        <5>1. PICK i \in 1 .. Len(rust.out) : rust.out[i].sequence = cpp.previous
          BY <3>2, <3>3, <4>2, <4>4
        <5> QED BY <3>2, <3>3, <4>4, <5>1
      <4> QED BY <4>3, <4>4
    <3>8. /\ Wire!RustAccepts(frame, rust.previous) \in BOOLEAN
          /\ Wire!CppAccepts(frame, cpp.previous) \in BOOLEAN
      BY DEF Wire!RustAccepts, Wire!CppAccepts
    <3>9. /\ Wire!RustAccepts(frame, rust.previous) = ahead
          /\ Wire!CppAccepts(frame, cpp.previous) = ahead
      BY <3>5, <3>6, <3>7, <3>8
    <3> QED BY <2>1, <3>5, <3>9
  <2> QED BY <2>2, <2>3 DEF BridgeInOrder, Wire!FramesInOrder
<1> QED BY <1>1, BridgeInit, BridgeNext, PTL DEF Spec

-----------------------------------------------------------------------------
(* THE WORKER POOLS (WorkerPool) *)

(* The types of the pool: futures are those of known clients and agents.   *)
PoolTypes ==
  /\ kind \in {"engine", "hub"} /\ owns \in BOOLEAN
  /\ closing \in {"open", "closing", "closed"}
  /\ call \in [Clients -> [at : {"idle", "submitting", "collecting", "returned", "raised"},
                           submitted : 0 .. Len(Agents),
                           results : Seq(ToSet(Agents) \X {"signal", "error"})]]
  /\ waiting \in Seq(Pool!Futures)
  /\ running \subseteq Pool!Futures
  /\ outcome \in [Pool!Futures -> {"none", "signal", "error", "cancelled"}]

(* A future that waits is there once and waits or is worked on, not both;  *)
(* neither is done.                                                        *)
OneAtATime ==
  /\ \A i, j \in 1 .. Len(waiting) : waiting[i] = waiting[j] => i = j
  /\ \A i \in 1 .. Len(waiting) : waiting[i] \notin running /\ outcome[waiting[i]] = "none"
  /\ \A f \in running : outcome[f] = "none"

(* What waits, is worked on or is done was submitted. *)
Entered(f) ==
  \/ \E i \in 1 .. Len(waiting) : waiting[i] = f
  \/ f \in running
  \/ outcome[f] # "none"
OnlySubmitted ==
  \A c \in Clients : \A a \in ToSet(Agents) :
    Entered(<<c, a>>) => \E i \in 1 .. call[c].submitted : Agents[i] = a

(* What the call of a client has collected is what the agents gave it, the *)
(* engine's in the order of its models and the hub's one of each; what it  *)
(* returned has one of each, in order.                                     *)
Answered(out, c, a) == a \in ToSet(Agents) /\ out[<<c, a>>] # "none"
GivenBy(out, c, a) == <<a, IF out[<<c, a>>] = "signal" THEN "signal" ELSE "error">>
Names(results) == {r[1] : r \in ToSet(results)}
Gathered(who, out, c, results) ==
  /\ Len(results) <= Len(Agents)
  /\ \A i \in 1 .. Len(results) :
       Answered(out, c, results[i][1]) /\ results[i] = GivenBy(out, c, results[i][1])
  /\ who = "engine" => \A i \in 1 .. Len(results) : results[i][1] = Agents[i]
  /\ who = "hub" => IsFiniteSet(Names(results)) /\ Cardinality(Names(results)) = Len(results)
OrderOf(who) == IF who = "hub" THEN Sorted ELSE Agents
Handed(who, out, c, results) ==
  /\ \A i \in DOMAIN OrderOf(who) : Answered(out, c, OrderOf(who)[i])
  /\ results = [i \in DOMAIN OrderOf(who) |-> GivenBy(out, c, OrderOf(who)[i])]
CallHolds(c) ==
  /\ call[c].at \in {"idle", "submitting"} => call[c].results = << >>
  /\ call[c].at = "collecting" => Gathered(kind, outcome, c, call[c].results)
  /\ call[c].at = "returned" => Handed(kind, outcome, c, call[c].results)
  /\ call[c].at = "raised" => Pool!Shut
CallsHold == \A c \in Clients : CallHolds(c)

(* A pool that is shut down has nothing to begin, and is closed when       *)
(* nothing runs.                                                           *)
ClosedIsEmpty ==
  /\ owns /\ closing # "open" => waiting = << >>
  /\ owns /\ closing = "closed" => running = {}

PoolInv == PoolTypes /\ OneAtATime /\ OnlySubmitted /\ CallsHold /\ ClosedIsEmpty

-----------------------------------------------------------------------------
(* The invariant is what the property says, and more.                      *)
LEMMA PoolMeans == PoolInv => Pool!FailuresIsolated
BY DEF PoolInv, CallsHold, CallHolds, Handed, OrderOf, GivenBy, ClosedIsEmpty,
       Pool!FailuresIsolated, Pool!Given

(* The operators of the instance are those of here. *)
LEMMA PoolOperators ==
  /\ \A s : Pool!ToSet(s) = ToSet(s)
  /\ \A s : Pool!Cardinality(s) = Cardinality(s)
  /\ Pool!Futures = Clients \X ToSet(Agents)
<1>1. \A s : Pool!ToSet(s) = ToSet(s)
  BY DEF Pool!ToSet, ToSet
<1>2. \A s : Pool!Cardinality(s) = Cardinality(s)
  BY DEF Pool!Cardinality, Cardinality
<1> QED BY <1>1, <1>2, Zenon DEF Pool!Futures

(* The agents differ, and the sorted ones are the same.                    *)
LEMMA AgentsAre ==
  /\ Agents \in Seq(ToSet(Agents)) /\ Sorted \in Seq(ToSet(Agents))
  /\ ToSet(Agents) = ToSet(Sorted) /\ Len(Agents) = Len(Sorted) /\ Len(Agents) \in Nat
  /\ IsFiniteSet(ToSet(Agents)) /\ Cardinality(ToSet(Agents)) = Len(Agents)
  /\ \A i, j \in 1 .. Len(Agents) : Agents[i] = Agents[j] => i = j
<1> DEFINE n == Len(Agents)
           A == ToSet(Agents)
<1>1. /\ Agents \in Seq(A) /\ Sorted \in Seq(A) /\ A = ToSet(Sorted) /\ n = Len(Sorted)
      /\ Cardinality(A) = n
  <2>1. Pool!PoolAssumption
    BY ComponentsAssumption, Zenon
  <2> QED BY <2>1, PoolOperators, Zenon DEF Pool!PoolAssumption
<1>2. n \in Nat /\ DOMAIN Agents = 1 .. n
  BY <1>1
<1>3. Agents \in Surjection(1 .. n, A)
  BY <1>1, <1>2 DEF Surjection, ToSet
<1> HIDE DEF n, A
<1>4. IsFiniteSet(1 .. n) /\ Cardinality(1 .. n) = n
  <2>1. 1 \in Int /\ n \in Int
    BY <1>2
  <2>2. IsFiniteSet(1 .. n)
    BY <2>1, FS_Interval, Zenon
  <2>3. Cardinality(1 .. n) = IF 1 > n THEN 0 ELSE n - 1 + 1
    BY <2>1, FS_Interval, Zenon
  <2> QED BY <1>2, <2>2, <2>3
<1>5. IsFiniteSet(A) /\ Agents \in Injection(1 .. n, A)
  BY <1>1, <1>3, <1>4, FS_Surjection, Zenon
<1>6. \A i, j \in 1 .. n : Agents[i] = Agents[j] => i = j
  BY <1>5, Zenon DEF Injection, IsInjective
<1> QED BY <1>1, <1>2, <1>5, <1>6, Zenon DEF n, A

(* Nothing is submitted at first.                                          *)
LEMMA PoolInit == Init => PoolInv
<1> SUFFICES ASSUME Init PROVE PoolInv
  OBVIOUS
<1>1. Pool!Init
  BY Zenon DEF Init
<1>2. PoolTypes
  <2>1. Len(Agents) \in Nat
    BY AgentsAre
  <2>2. << >> \in Seq(ToSet(Agents) \X {"signal", "error"}) /\ << >> \in Seq(Pool!Futures)
    OBVIOUS
  <2>3. owns \in BOOLEAN
    BY <1>1 DEF Pool!Init
  <2> QED BY <1>1, <2>1, <2>2, <2>3 DEF PoolTypes, Pool!Init
<1>3. OneAtATime
  BY <1>1 DEF OneAtATime, Pool!Init
<1>4. OnlySubmitted
  <2>1. waiting = << >> /\ running = {} /\ outcome = [f \in Pool!Futures |-> "none"]
    BY <1>1 DEF Pool!Init
  <2>2. Len(waiting) = 0
    BY <2>1
  <2>3. \A f \in Pool!Futures : ~Entered(f)
    BY <2>1, <2>2 DEF Entered
  <2>4. \A c \in Clients : \A a \in ToSet(Agents) : <<c, a>> \in Pool!Futures
    BY PoolOperators
  <2> QED BY <2>3, <2>4, Zenon DEF OnlySubmitted
<1>5. CallsHold
  BY <1>1 DEF CallsHold, CallHolds, Pool!Init
<1>6. ClosedIsEmpty
  BY <1>1 DEF ClosedIsEmpty, Pool!Init
<1> QED BY <1>2, <1>3, <1>4, <1>5, <1>6 DEF PoolInv

(* What is done stays as it is. *)
Kept(out, new) == \A f \in Pool!Futures : out[f] # "none" => new[f] = out[f]

(* What a future gave it gives for good, and so what was collected and     *)
(* returned of it stays as it is.                                          *)
LEMMA AnswersStay ==
  ASSUME NEW out, NEW new, Kept(out, new), NEW c \in Clients, NEW a, Answered(out, c, a)
  PROVE  Answered(new, c, a) /\ GivenBy(new, c, a) = GivenBy(out, c, a)
<1>1. <<c, a>> \in Pool!Futures /\ out[<<c, a>>] # "none" /\ a \in ToSet(Agents)
  BY PoolOperators DEF Answered
<1>2. new[<<c, a>>] = out[<<c, a>>]
  BY <1>1, Zenon DEF Kept
<1> QED BY <1>1, <1>2, Zenon DEF Answered, GivenBy

LEMMA GatheredStays ==
  ASSUME NEW who, NEW out, NEW new, Kept(out, new), NEW c \in Clients, NEW results,
         Gathered(who, out, c, results)
  PROVE  Gathered(who, new, c, results)
<1>1. \A a : Answered(out, c, a) =>
              Answered(new, c, a) /\ GivenBy(new, c, a) = GivenBy(out, c, a)
  BY AnswersStay, Zenon
<1>2. \A i \in 1 .. Len(results) :
        Answered(out, c, results[i][1]) /\ results[i] = GivenBy(out, c, results[i][1])
  BY Zenon DEF Gathered
<1>3. \A i \in 1 .. Len(results) :
        Answered(new, c, results[i][1]) /\ results[i] = GivenBy(new, c, results[i][1])
  BY <1>1, <1>2, Zenon
<1> QED BY <1>3, Zenon DEF Gathered

LEMMA HandedStays ==
  ASSUME NEW who, NEW out, NEW new, Kept(out, new), NEW c \in Clients, NEW results,
         Handed(who, out, c, results)
  PROVE  Handed(who, new, c, results)
<1>1. \A a : Answered(out, c, a) =>
              Answered(new, c, a) /\ GivenBy(new, c, a) = GivenBy(out, c, a)
  BY AnswersStay, Zenon
<1>2. \A i \in DOMAIN OrderOf(who) : Answered(out, c, OrderOf(who)[i])
  BY Zenon DEF Handed
<1>3. /\ \A i \in DOMAIN OrderOf(who) : Answered(new, c, OrderOf(who)[i])
      /\ \A i \in DOMAIN OrderOf(who) :
           GivenBy(new, c, OrderOf(who)[i]) = GivenBy(out, c, OrderOf(who)[i])
  BY <1>1, <1>2, Zenon
<1>4. results = [i \in DOMAIN OrderOf(who) |-> GivenBy(out, c, OrderOf(who)[i])]
  BY Zenon DEF Handed
<1>5. results = [i \in DOMAIN OrderOf(who) |-> GivenBy(new, c, OrderOf(who)[i])]
  BY <1>3, <1>4, Zenon
<1> QED BY <1>3, <1>5, Zenon DEF Handed

(* A call holds on while what is done stays. *)
DoneStays ==
  kind' = kind /\ Kept(outcome, outcome') /\ (Pool!Shut => Pool!Shut')

(* A call that does not move keeps what it has.                            *)
LEMMA CallsHoldOn ==
  ASSUME DoneStays, NEW c \in Clients, CallHolds(c), call'[c] = call[c]
  PROVE  CallHolds(c)'
<1>1. kind' = kind /\ Kept(outcome, outcome') /\ (Pool!Shut => Pool!Shut')
  BY Zenon DEF DoneStays
<1>2. Gathered(kind, outcome, c, call[c].results) => Gathered(kind, outcome', c, call[c].results)
  BY <1>1, GatheredStays, Zenon
<1>3. Handed(kind, outcome, c, call[c].results) => Handed(kind, outcome', c, call[c].results)
  BY <1>1, HandedStays, Zenon
<1> QED BY <1>1, <1>2, <1>3, Zenon DEF CallHolds

(* What the step of one client leaves of the others. *)
LEMMA OthersHoldOn ==
  ASSUME DoneStays, CallsHold, NEW c \in Clients,
         \A d \in Clients : d # c => call'[d] = call[d], CallHolds(c)'
  PROVE  CallsHold'
<1>1. ASSUME NEW d \in Clients PROVE CallHolds(d)'
  <2>1. CASE d = c
    BY <2>1
  <2>2. CASE d # c
    BY <2>2, CallsHoldOn DEF CallsHold
  <2> QED BY <2>1, <2>2
<1> QED BY <1>1 DEF CallsHold

(* The records of calls. *)
CallRecords ==
  [at : {"idle", "submitting", "collecting", "returned", "raised"},
   submitted : 0 .. Len(Agents), results : Seq(ToSet(Agents) \X {"signal", "error"})]

(* A call that moves leaves the others alone.                              *)
LEMMA CallMoves ==
  ASSUME PoolTypes, NEW c \in Clients,
         NEW place \in {"idle", "submitting", "collecting", "returned", "raised"},
         call' = [call EXCEPT ![c].at = place]
  PROVE  /\ call' \in [Clients -> CallRecords]
         /\ call'[c].at = place /\ call'[c].submitted = call[c].submitted
         /\ call'[c].results = call[c].results
         /\ \A d \in Clients : d # c => call'[d] = call[d]
         /\ \A d \in Clients : call'[d].submitted = call[d].submitted
<1> DEFINE n == 0 .. Len(Agents)
           R == Seq(ToSet(Agents) \X {"signal", "error"})
<1> HIDE DEF n, R
<1>1. call \in [Clients -> [at : {"idle", "submitting", "collecting", "returned", "raised"},
                            submitted : n, results : R]]
  BY DEF PoolTypes, n, R
<1>2. /\ call' \in [Clients -> [at : {"idle", "submitting", "collecting", "returned", "raised"},
                                submitted : n, results : R]]
      /\ call'[c].at = place /\ call'[c].submitted = call[c].submitted
      /\ call'[c].results = call[c].results
      /\ \A d \in Clients : d # c => call'[d] = call[d]
  BY <1>1
<1>3. \A d \in Clients : call'[d].submitted = call[d].submitted
  BY <1>2
<1> QED BY <1>2, <1>3 DEF CallRecords, n, R

LEMMA KeptItself == Kept(outcome, outcome)
BY Zenon DEF Kept

LEMMA SameOutcomes ==
  ASSUME UNCHANGED <<kind, owns, closing, outcome>>
  PROVE  DoneStays
<1>1. kind' = kind /\ owns' = owns /\ closing' = closing /\ outcome' = outcome
  OBVIOUS
<1>2. Kept(outcome, outcome')
  BY <1>1, KeptItself
<1>3. Pool!Shut => Pool!Shut'
  BY <1>1 DEF Pool!Shut
<1> QED BY <1>1, <1>2, <1>3, Zenon DEF DoneStays

(* Nothing new is entered, and what was submitted stays so. *)
LEMMA NothingEntered ==
  ASSUME OnlySubmitted, PoolTypes,
         \A f \in Pool!Futures : Entered(f)' => Entered(f),
         \A c \in Clients : call'[c].submitted = call[c].submitted
  PROVE  OnlySubmitted'
<1>1. \A c \in Clients : \A a \in ToSet(Agents) : <<c, a>> \in Pool!Futures
  BY PoolOperators
<1> QED BY <1>1 DEF OnlySubmitted

(* A call that moves on without submitting, with the results it has.       *)
LEMMA StandKeeps ==
  ASSUME PoolInv, NEW c \in Clients,
         NEW place \in {"idle", "submitting", "collecting", "returned", "raised"},
         call' = [call EXCEPT ![c].at = place], CallHolds(c)',
         UNCHANGED <<kind, owns, closing, waiting, running, outcome>>
  PROVE  PoolInv'
<1>1. /\ call' \in [Clients -> CallRecords]
      /\ \A d \in Clients : d # c => call'[d] = call[d]
      /\ \A d \in Clients : call'[d].submitted = call[d].submitted
  BY CallMoves DEF PoolInv
<1>2. PoolTypes'
  BY <1>1 DEF PoolInv, PoolTypes, CallRecords
<1>3. OneAtATime'
  BY DEF PoolInv, OneAtATime
<1>4. OnlySubmitted'
  BY <1>1, NothingEntered DEF PoolInv, Entered
<1>5. CallsHold'
  BY <1>1, SameOutcomes, OthersHoldOn DEF PoolInv
<1>6. ClosedIsEmpty'
  BY DEF PoolInv, ClosedIsEmpty
<1> QED BY <1>2, <1>3, <1>4, <1>5, <1>6 DEF PoolInv

(* The steps of a call: infer() begins, has submitted all, collects and    *)
(* returns.                                                                *)
LEMMA CallKeeps ==
  ASSUME PoolInv, NEW c \in Clients, Pool!Begin(c)
  PROVE  PoolInv'
<1>1. /\ call[c].at = "idle" /\ call' = [call EXCEPT ![c].at = "submitting"]
      /\ UNCHANGED <<kind, owns, closing, waiting, running, outcome>>
  BY DEF Pool!Begin
<1>2. call'[c].at = "submitting" /\ call'[c].results = call[c].results
  BY <1>1, CallMoves DEF PoolInv
<1>3. call[c].results = << >>
  BY <1>1 DEF PoolInv, CallsHold, CallHolds
<1>4. CallHolds(c)'
  BY <1>2, <1>3 DEF CallHolds
<1> QED BY <1>1, <1>4, StandKeeps

LEMMA SubmittedKeeps ==
  ASSUME PoolInv, NEW c \in Clients, Pool!Submitted(c)
  PROVE  PoolInv'
<1>1. /\ call[c].at = "submitting" /\ call' = [call EXCEPT ![c].at = "collecting"]
      /\ UNCHANGED <<kind, owns, closing, waiting, running, outcome>>
  BY DEF Pool!Submitted
<1>2. call'[c].at = "collecting" /\ call'[c].results = call[c].results
  BY <1>1, CallMoves DEF PoolInv
<1>3. call[c].results = << >>
  BY <1>1 DEF PoolInv, CallsHold, CallHolds
<1>4. Gathered(kind, outcome, c, << >>)
  <2>1. Len(<< >>) = 0 /\ Len(Agents) \in Nat
    BY AgentsAre
  <2>2. Names(<< >>) = {}
    BY DEF Names, ToSet
  <2>3. IsFiniteSet({}) /\ Cardinality({}) = 0
    BY FS_EmptySet
  <2> QED BY <2>1, <2>2, <2>3 DEF Gathered
<1>5. CallHolds(c)'
  BY <1>1, <1>2, <1>3, <1>4 DEF CallHolds
<1> QED BY <1>1, <1>5, StandKeeps

(* A submit enters one future, which was not there before: the agents      *)
(* differ.                                                                 *)
LEMMA SubmitKeeps ==
  ASSUME PoolInv, NEW c \in Clients, Pool!Submit(c)
  PROVE  PoolInv'
<1>1. /\ call[c].at = "submitting" /\ call[c].submitted < Len(Agents)
      /\ UNCHANGED <<kind, owns, closing, running, outcome>>
  BY DEF Pool!Submit
<1>2. CASE Pool!Shut
  <2>1. call' = [call EXCEPT ![c].at = "raised"] /\ waiting' = waiting
    BY <1>2 DEF Pool!Submit
  <2>2. call'[c].at = "raised"
    BY <2>1, CallMoves DEF PoolInv
  <2>3. CallHolds(c)'
    BY <1>1, <1>2, <2>2 DEF CallHolds, Pool!Shut
  <2> QED BY <1>1, <2>1, <2>3, StandKeeps
<1>3. CASE ~Pool!Shut
  <2> DEFINE k == call[c].submitted
             n == Len(Agents)
             f == <<c, Agents[k + 1]>>
             m == Len(waiting)
  <2>1. call' = [call EXCEPT ![c].submitted = k + 1] /\ waiting' = Append(waiting, f)
    BY <1>3 DEF Pool!Submit
  <2>2. /\ k \in 0 .. n /\ n \in Nat /\ k < n /\ k + 1 \in 1 .. n
        /\ Agents[k + 1] \in ToSet(Agents)
        /\ \A i, j \in 1 .. n : Agents[i] = Agents[j] => i = j
    <3>1. k \in 0 .. n
      BY DEF PoolInv, PoolTypes
    <3>2. n \in Nat /\ k < n
      BY <1>1, AgentsAre
    <3>3. k + 1 \in 1 .. n
      BY <3>1, <3>2
    <3> QED BY <3>1, <3>2, <3>3, AgentsAre
  <2>3. f \in Pool!Futures
    BY <2>2, PoolOperators
  <2>4. ~Entered(f)
    <3>1. ASSUME Entered(f) PROVE FALSE
      <4>1. PICK i \in 1 .. k : Agents[i] = Agents[k + 1]
        BY <2>2, <3>1 DEF PoolInv, OnlySubmitted
      <4>2. i \in 1 .. n
        BY <2>2
      <4> QED BY <2>2, <4>1, <4>2
    <3> QED BY <3>1
  <2> HIDE DEF n, k
  <2>5. /\ call' \in [Clients -> CallRecords]
        /\ call'[c].at = call[c].at /\ call'[c].results = call[c].results
        /\ call'[c].submitted = k + 1
        /\ \A d \in Clients : d # c => call'[d] = call[d]
    <3> DEFINE R == Seq(ToSet(Agents) \X {"signal", "error"})
               P == {"idle", "submitting", "collecting", "returned", "raised"}
    <3>1. call \in [Clients -> [at : P, submitted : 0 .. n, results : R]]
      BY DEF PoolInv, PoolTypes, n
    <3>2. k + 1 \in 0 .. n
      BY <2>2
    <3> HIDE DEF R, P
    <3>3. /\ call' \in [Clients -> [at : P, submitted : 0 .. n, results : R]]
          /\ call'[c].at = call[c].at /\ call'[c].results = call[c].results
          /\ call'[c].submitted = k + 1
          /\ \A d \in Clients : d # c => call'[d] = call[d]
      BY <2>1, <3>1, <3>2
    <3> QED BY <3>3 DEF CallRecords, R, P, n
  <2>6. waiting \in Seq(Pool!Futures) /\ m \in Nat
    BY DEF PoolInv, PoolTypes
  <2>7. /\ waiting' \in Seq(Pool!Futures) /\ Len(waiting') = m + 1
        /\ \A i \in 1 .. m : waiting'[i] = waiting[i]
        /\ waiting'[m + 1] = f
    <3> HIDE DEF f
    <3> QED BY <2>1, <2>3, <2>6
  <2> HIDE DEF f, m
  <2>8. PoolTypes'
    BY <1>1, <2>5, <2>7 DEF PoolInv, PoolTypes, CallRecords
  <2>9. \A i \in 1 .. m + 1 : i \in 1 .. m \/ i = m + 1
    BY <2>6
  <2>10. /\ \A i \in 1 .. m : waiting[i] # f
         /\ f \notin running /\ outcome[f] = "none"
    BY <2>4 DEF Entered, m
  <2>11. OneAtATime'
    <3>1. /\ \A i, j \in 1 .. m : waiting[i] = waiting[j] => i = j
          /\ \A i \in 1 .. m : waiting[i] \notin running /\ outcome[waiting[i]] = "none"
          /\ \A g \in running : outcome[g] = "none"
      BY DEF PoolInv, OneAtATime, m
    <3>2. \A i, j \in 1 .. m + 1 : waiting'[i] = waiting'[j] => i = j
      <4> SUFFICES ASSUME NEW i \in 1 .. m + 1, NEW j \in 1 .. m + 1,
                          waiting'[i] = waiting'[j]
                   PROVE  i = j
        OBVIOUS
      <4>1. CASE i \in 1 .. m /\ j \in 1 .. m
        BY <2>7, <3>1, <4>1, Zenon
      <4>2. CASE i \in 1 .. m /\ j = m + 1
        BY <2>7, <2>10, <4>2, Zenon
      <4>3. CASE i = m + 1 /\ j \in 1 .. m
        BY <2>7, <2>10, <4>3, Zenon
      <4>4. CASE i = m + 1 /\ j = m + 1
        BY <4>4
      <4> QED BY <2>9, <4>1, <4>2, <4>3, <4>4, Zenon
    <3>3. \A i \in 1 .. m + 1 : waiting'[i] \notin running /\ outcome[waiting'[i]] = "none"
      BY <2>7, <2>9, <2>10, <3>1, Zenon
    <3> QED BY <1>1, <2>7, <3>1, <3>2, <3>3 DEF OneAtATime
  <2>12. OnlySubmitted'
    <3> SUFFICES ASSUME NEW d \in Clients, NEW a \in ToSet(Agents), Entered(<<d, a>>)'
                 PROVE  \E i \in 1 .. call'[d].submitted : Agents[i] = a
      BY DEF OnlySubmitted
    <3>1. CASE Entered(<<d, a>>)
      <4>1. PICK i \in 1 .. call[d].submitted : Agents[i] = a
        BY <3>1 DEF PoolInv, OnlySubmitted
      <4>2. i \in 1 .. call'[d].submitted
        <5>1. CASE d = c
          BY <2>2, <2>5, <5>1 DEF k
        <5>2. CASE d # c
          BY <2>5, <5>2
        <5> QED BY <5>1, <5>2
      <4> QED BY <4>1, <4>2
    <3>2. CASE ~Entered(<<d, a>>)
      <4>1. <<d, a>> = f
        <5>1. \E i \in 1 .. m + 1 : waiting'[i] = <<d, a>>
          BY <1>1, <2>7, <3>2 DEF Entered
        <5>2. ~\E i \in 1 .. m : waiting[i] = <<d, a>>
          BY <3>2 DEF Entered, m
        <5> QED BY <2>7, <2>9, <5>1, <5>2, Zenon
      <4>2. d = c /\ a = Agents[k + 1]
        BY <4>1 DEF f
      <4>3. k + 1 \in 1 .. call'[d].submitted
        BY <2>2, <2>5, <4>2
      <4> QED BY <4>2, <4>3
    <3> QED BY <3>1, <3>2
  <2>13. CallsHold'
    <3>1. CallHolds(c)'
      BY <1>1, <2>5 DEF PoolInv, CallsHold, CallHolds
    <3> QED BY <1>1, <2>5, <3>1, SameOutcomes, OthersHoldOn DEF PoolInv
  <2>14. ClosedIsEmpty'
    BY <1>1, <1>3 DEF PoolInv, PoolTypes, ClosedIsEmpty, Pool!Shut
  <2> QED BY <2>8, <2>11, <2>12, <2>13, <2>14 DEF PoolInv
<1> QED BY <1>2, <1>3

(* What a call collects is one more answer: in the engine's order, or of   *)
(* an agent the hub has no answer of.                                      *)
LEMMA GatheredMore ==
  ASSUME NEW who \in {"engine", "hub"}, NEW out, NEW c \in Clients, NEW T,
         NEW results \in Seq(T), NEW r \in T, NEW a, r = GivenBy(out, c, a),
         Answered(out, c, a), Gathered(who, out, c, results), Len(results) < Len(Agents),
         who = "engine" => a = Agents[Len(results) + 1],
         who = "hub" => a \notin Names(results)
  PROVE  Gathered(who, out, c, Append(results, r))
<1> DEFINE more == Append(results, r)
           k == Len(results)
<1>1. /\ k \in Nat /\ more \in Seq(T) /\ Len(more) = k + 1 /\ more[k + 1] = r
      /\ \A i \in 1 .. k : more[i] = results[i]
      /\ DOMAIN results = 1 .. k /\ DOMAIN more = 1 .. (k + 1)
  OBVIOUS
<1>2. r[1] = a
  BY DEF GivenBy
<1>3. \A i \in 1 .. (k + 1) : i \in 1 .. k \/ i = k + 1
  BY <1>1
<1>4. /\ \A i \in 1 .. k :
           Answered(out, c, results[i][1]) /\ results[i] = GivenBy(out, c, results[i][1])
      /\ who = "engine" => \A i \in 1 .. k : results[i][1] = Agents[i]
      /\ who = "hub" => IsFiniteSet(Names(results)) /\ Cardinality(Names(results)) = k
  BY Zenon DEF Gathered, k
<1>5. Len(Agents) \in Nat
  BY AgentsAre
<1>6. k < Len(Agents)
  OBVIOUS
<1> HIDE DEF more, k
<1>7. k + 1 <= Len(Agents)
  BY <1>1, <1>5, <1>6
<1>8. \A i \in 1 .. (k + 1) :
        Answered(out, c, more[i][1]) /\ more[i] = GivenBy(out, c, more[i][1])
  BY <1>1, <1>2, <1>3, <1>4, Zenon
<1>9. who = "engine" => \A i \in 1 .. (k + 1) : more[i][1] = Agents[i]
  <2>1. who = "engine" => a = Agents[k + 1]
    BY DEF k
  <2> QED BY <1>1, <1>2, <1>3, <1>4, <2>1, Zenon
<1>10. Names(more) = Names(results) \cup {a}
  <2>1. \A x : x \in ToSet(more) <=> \E i \in 1 .. (k + 1) : more[i] = x
    BY <1>1, Zenon DEF ToSet
  <2>2. \A x : x \in ToSet(results) <=> \E i \in 1 .. k : results[i] = x
    BY <1>1, Zenon DEF ToSet
  <2>3. \A i \in 1 .. k : i \in 1 .. (k + 1)
    BY <1>1
  <2>4. k + 1 \in 1 .. (k + 1)
    BY <1>1
  <2>5. \A x : x \in ToSet(more) <=> x \in ToSet(results) \/ x = r
    BY <1>1, <1>3, <2>1, <2>2, <2>3, <2>4, Zenon
  <2>6. ToSet(more) = ToSet(results) \cup {r}
    BY <2>5, Zenon
  <2>7. {x[1] : x \in ToSet(results) \cup {r}} = {x[1] : x \in ToSet(results)} \cup {r[1]}
    OBVIOUS
  <2> QED BY <1>2, <2>6, <2>7, Zenon DEF Names
<1>11. who = "hub" => IsFiniteSet(Names(more)) /\ Cardinality(Names(more)) = k + 1
  <2> SUFFICES ASSUME who = "hub"
               PROVE  IsFiniteSet(Names(more)) /\ Cardinality(Names(more)) = k + 1
    OBVIOUS
  <2>1. IsFiniteSet(Names(results)) /\ Cardinality(Names(results)) = k /\ a \notin Names(results)
    BY <1>4
  <2>2. /\ IsFiniteSet(Names(results) \cup {a})
        /\ Cardinality(Names(results) \cup {a}) = Cardinality(Names(results)) + 1
    BY <2>1, FS_AddElement
  <2> QED BY <1>10, <2>1, <2>2
<1>12. Gathered(who, out, c, more)
  BY <1>1, <1>7, <1>8, <1>9, <1>11, Zenon DEF Gathered
<1> QED BY <1>12 DEF more

(* A call that gets other results leaves the others alone.                 *)
LEMMA ResultsMove ==
  ASSUME PoolTypes, NEW c \in Clients,
         NEW place \in {"idle", "submitting", "collecting", "returned", "raised"},
         NEW results \in Seq(ToSet(Agents) \X {"signal", "error"}),
         call' = [call EXCEPT ![c].at = place, ![c].results = results]
  PROVE  /\ call' \in [Clients -> CallRecords]
         /\ call'[c].at = place /\ call'[c].results = results
         /\ \A d \in Clients : d # c => call'[d] = call[d]
         /\ \A d \in Clients : call'[d].submitted = call[d].submitted
<1> DEFINE n == 0 .. Len(Agents)
           R == Seq(ToSet(Agents) \X {"signal", "error"})
<1> HIDE DEF n, R
<1>1. call \in [Clients -> [at : {"idle", "submitting", "collecting", "returned", "raised"},
                            submitted : n, results : R]]
  BY DEF PoolTypes, n, R
<1>2. results \in R
  BY DEF R
<1>3. /\ call' \in [Clients -> [at : {"idle", "submitting", "collecting", "returned", "raised"},
                                submitted : n, results : R]]
      /\ call'[c].at = place /\ call'[c].submitted = call[c].submitted
      /\ call'[c].results = results
      /\ \A d \in Clients : d # c => call'[d] = call[d]
  BY <1>1, <1>2
<1>4. \A d \in Clients : call'[d].submitted = call[d].submitted
  BY <1>3
<1> QED BY <1>3, <1>4 DEF CallRecords, n, R

LEMMA ResultsKeep ==
  ASSUME PoolInv, NEW c \in Clients,
         call' \in [Clients -> CallRecords],
         \A d \in Clients : d # c => call'[d] = call[d],
         \A d \in Clients : call'[d].submitted = call[d].submitted, CallHolds(c)',
         UNCHANGED <<kind, owns, closing, waiting, running, outcome>>
  PROVE  PoolInv'
<1>2. PoolTypes'
  BY DEF PoolInv, PoolTypes, CallRecords
<1>3. OneAtATime'
  BY DEF PoolInv, OneAtATime
<1>4. OnlySubmitted'
  BY NothingEntered DEF PoolInv, Entered
<1>5. CallsHold'
  BY SameOutcomes, OthersHoldOn DEF PoolInv
<1>6. ClosedIsEmpty'
  BY DEF PoolInv, ClosedIsEmpty
<1> QED BY <1>2, <1>3, <1>4, <1>5, <1>6 DEF PoolInv

LEMMA CollectKeeps ==
  ASSUME PoolInv, NEW c \in Clients, Pool!Collect(c)
  PROVE  PoolInv'
<1> DEFINE T == ToSet(Agents) \X {"signal", "error"}
           results == call[c].results
<1>1. /\ call[c].at = "collecting" /\ Len(results) < Len(Agents)
      /\ UNCHANGED <<kind, owns, closing, waiting, running, outcome>>
  BY DEF Pool!Collect
<1>2. PICK a \in Pool!Collectable(c) :
        /\ Pool!Done(<<c, a>>)
        /\ call' = [call EXCEPT ![c].results = Append(results, Pool!Given(c, a))]
  BY Zenon DEF Pool!Collect
<1>3. results \in Seq(T) /\ kind \in {"engine", "hub"}
      /\ Gathered(kind, outcome, c, results)
  BY <1>1 DEF PoolInv, PoolTypes, CallsHold, CallHolds
<1>4. Len(results) \in Nat /\ Len(Agents) \in Nat
  BY <1>3, AgentsAre
<1>5. /\ a \in ToSet(Agents)
      /\ kind = "engine" => a = Agents[Len(results) + 1]
      /\ kind = "hub" => a \notin Names(results)
  <2>1. CASE kind = "engine"
    <3>1. a = Agents[Len(results) + 1]
      BY <2>1 DEF Pool!Collectable
    <3>2. Len(results) + 1 \in 1 .. Len(Agents)
      BY <1>1, <1>4
    <3>3. a \in ToSet(Agents)
      BY <3>1, <3>2, AgentsAre DEF ToSet
    <3> QED BY <2>1, <3>1, <3>3
  <2>2. CASE kind = "hub"
    <3>1. kind # "engine"
      BY <2>2
    <3>2. a \in Pool!ToSet(Agents) \ Pool!Collected(c)
      BY <3>1, Zenon DEF Pool!Collectable
    <3>3. Pool!Collected(c) = Names(results)
      BY PoolOperators, Zenon DEF Pool!Collected, Names
    <3> QED BY <2>2, <3>2, <3>3, PoolOperators
  <2> QED BY <1>3, <2>1, <2>2
<1> DEFINE r == GivenBy(outcome, c, a)
<1>6. r \in T /\ Pool!Given(c, a) = r /\ Answered(outcome, c, a)
  BY <1>2, <1>5 DEF GivenBy, Pool!Given, Pool!Done, Answered
<1> HIDE DEF T, results
<1>7. Gathered(kind, outcome, c, Append(results, r))
  BY <1>1, <1>3, <1>5, <1>6, GatheredMore
<1> HIDE DEF r
<1>8. Append(results, r) \in Seq(T)
  BY <1>3, <1>6
<1>9. /\ call' \in [Clients -> CallRecords]
      /\ call'[c].at = "collecting" /\ call'[c].results = Append(results, r)
      /\ \A d \in Clients : d # c => call'[d] = call[d]
      /\ \A d \in Clients : call'[d].submitted = call[d].submitted
  <2>1. call' = [call EXCEPT ![c].at = "collecting", ![c].results = Append(results, r)]
    <3>1. call' = [call EXCEPT ![c].results = Append(results, r)]
      BY <1>2, <1>6
    <3>2. call \in [Clients -> CallRecords]
      BY DEF PoolInv, PoolTypes, CallRecords
    <3>3. call[c].at = "collecting"
      BY <1>1
    <3> QED BY <3>1, <3>2, <3>3 DEF CallRecords
  <2>2. PoolTypes
    BY DEF PoolInv
  <2> QED BY <1>8, <2>1, <2>2, ResultsMove DEF T
<1>10. CallHolds(c)'
  BY <1>1, <1>7, <1>9 DEF CallHolds
<1> QED BY <1>1, <1>9, <1>10, ResultsKeep

(* Of the hub's answers there is one of each agent, and it is the agent's. *)
EachAnswers(out, c, results) ==
  \A i \in DOMAIN Sorted :
    /\ Answered(out, c, Sorted[i])
    /\ \E r \in ToSet(results) : r[1] = Sorted[i]
    /\ \A r \in ToSet(results) : r[1] = Sorted[i] => r = GivenBy(out, c, Sorted[i])

(* When there are as many answers as agents, each agent has answered.      *)
LEMMA AllAnswered ==
  ASSUME NEW who \in {"engine", "hub"}, NEW out, NEW c \in Clients, NEW T,
         NEW results \in Seq(T), Gathered(who, out, c, results), Len(results) = Len(Agents)
  PROVE  /\ who = "engine" => Handed(who, out, c, results)
         /\ who = "hub" => EachAnswers(out, c, results)
<1> DEFINE n == Len(Agents)
           A == ToSet(Agents)
<1>1. /\ \A i \in 1 .. n :
           Answered(out, c, results[i][1]) /\ results[i] = GivenBy(out, c, results[i][1])
      /\ who = "engine" => \A i \in 1 .. n : results[i][1] = Agents[i]
      /\ who = "hub" => IsFiniteSet(Names(results)) /\ Cardinality(Names(results)) = n
  BY Zenon DEF Gathered
<1>2. /\ DOMAIN Agents = 1 .. n /\ DOMAIN Sorted = 1 .. n /\ DOMAIN results = 1 .. n
      /\ n \in Nat /\ results = [i \in 1 .. n |-> results[i]]
      /\ \A i \in 1 .. n : Sorted[i] \in A
  BY AgentsAre
<1>3. who = "engine" => Handed(who, out, c, results)
  <2> SUFFICES ASSUME who = "engine" PROVE Handed(who, out, c, results)
    OBVIOUS
  <2>1. OrderOf(who) = Agents
    BY DEF OrderOf
  <2>2. \A i \in 1 .. n : Answered(out, c, Agents[i]) /\ results[i] = GivenBy(out, c, Agents[i])
    BY <1>1, Zenon
  <2>3. results = [i \in 1 .. n |-> GivenBy(out, c, Agents[i])]
    BY <1>2, <2>2
  <2> QED BY <1>2, <2>1, <2>2, <2>3, Zenon DEF Handed
<1>4. ASSUME who = "hub"
      PROVE  EachAnswers(out, c, results)
  <2>1. \A r \in ToSet(results) : Answered(out, c, r[1]) /\ r = GivenBy(out, c, r[1])
    <3>1. \A r \in ToSet(results) : \E i \in 1 .. n : r = results[i]
      BY <1>2, Zenon DEF ToSet
    <3> QED BY <1>1, <3>1, Zenon
  <2>2. Names(results) = A
    <3>1. Names(results) \subseteq A
      BY <2>1 DEF Names, Answered
    <3>2. IsFiniteSet(A) /\ Cardinality(A) = n
      <4>1. Cardinality(A) = n
        BY AgentsAre
      <4>2. IsFiniteSet(A)
        BY AgentsAre
      <4> QED BY <4>1, <4>2
    <3> HIDE DEF A, n
    <3> QED BY <1>1, <1>4, <3>1, <3>2, FS_Subset
  <2>3. \A i \in 1 .. n : \E r \in ToSet(results) : r[1] = Sorted[i]
    <3>1. \A i \in 1 .. n : Sorted[i] \in Names(results)
      BY <1>2, <2>2, Zenon
    <3> QED BY <3>1, Zenon DEF Names
  <2>4. \A i \in 1 .. n : Answered(out, c, Sorted[i])
    BY <2>1, <2>3, Zenon
  <2>5. \A i \in 1 .. n : \A r \in ToSet(results) :
          r[1] = Sorted[i] => r = GivenBy(out, c, Sorted[i])
    BY <2>1, Zenon
  <2> QED BY <1>2, <2>3, <2>4, <2>5, Zenon DEF EachAnswers
<1> QED BY <1>3, <1>4, Zenon

LEMMA ReturnKeeps ==
  ASSUME PoolInv, NEW c \in Clients, Pool!Return(c)
  PROVE  PoolInv'
<1> DEFINE T == ToSet(Agents) \X {"signal", "error"}
           results == call[c].results
           final == Pool!Arranged(c)
<1>1. /\ call[c].at = "collecting" /\ Len(results) = Len(Agents)
      /\ call' = [call EXCEPT ![c].at = "returned", ![c].results = final]
      /\ UNCHANGED <<kind, owns, closing, waiting, running, outcome>>
  BY DEF Pool!Return
<1>2. results \in Seq(T) /\ kind \in {"engine", "hub"}
      /\ Gathered(kind, outcome, c, results)
  BY <1>1 DEF PoolInv, PoolTypes, CallsHold, CallHolds
<1>3. /\ kind = "engine" => Handed(kind, outcome, c, results)
      /\ kind = "hub" => EachAnswers(outcome, c, results)
  <2> HIDE DEF T, results
  <2>1. Len(results) = Len(Agents)
    BY <1>1
  <2> QED BY <1>2, <2>1, AllAnswered
<1>4. Handed(kind, outcome, c, final) /\ final \in Seq(T)
  <2>1. CASE kind = "engine"
    <3>1. final = results
      BY <2>1, Zenon DEF Pool!Arranged
    <3> QED BY <1>2, <1>3, <2>1, <3>1
  <2>2. CASE kind = "hub"
    <3>1. kind # "engine"
      BY <2>2
    <3>2. final = [i \in DOMAIN Sorted |->
                     CHOOSE r \in Pool!ToSet(results) : r[1] = Sorted[i]]
      BY <3>1, Zenon DEF Pool!Arranged
    <3>3. Pool!ToSet(results) = ToSet(results)
      BY PoolOperators
    <3> HIDE DEF results
    <3>4. \A i \in DOMAIN Sorted :
            (CHOOSE r \in Pool!ToSet(results) : r[1] = Sorted[i]) =
              GivenBy(outcome, c, Sorted[i])
      <4> TAKE i \in DOMAIN Sorted
      <4> DEFINE g == CHOOSE r \in Pool!ToSet(results) : r[1] = Sorted[i]
      <4>1. \E r \in Pool!ToSet(results) : r[1] = Sorted[i]
        BY <1>3, <2>2, <3>3 DEF EachAnswers
      <4>2. g \in Pool!ToSet(results) /\ g[1] = Sorted[i]
        BY <4>1, Zenon
      <4> HIDE DEF g
      <4>3. g = GivenBy(outcome, c, Sorted[i])
        <5>1. \A r \in ToSet(results) :
                r[1] = Sorted[i] => r = GivenBy(outcome, c, Sorted[i])
          BY <1>3, <2>2, Zenon DEF EachAnswers
        <5>2. g \in ToSet(results)
          BY <3>3, <4>2
        <5> QED BY <4>2, <5>1, <5>2, Zenon
      <4> QED BY <4>3 DEF g
    <3> HIDE DEF final
    <3>5. final = [i \in DOMAIN Sorted |-> GivenBy(outcome, c, Sorted[i])]
      BY <3>2, <3>4, Zenon
    <3>6. OrderOf(kind) = Sorted
      BY <2>2 DEF OrderOf
    <3>7. Handed(kind, outcome, c, final)
      BY <1>3, <2>2, <3>5, <3>6, Zenon DEF Handed, EachAnswers
    <3>8. \A i \in DOMAIN Sorted : GivenBy(outcome, c, Sorted[i]) \in T
      BY <1>3, <2>2 DEF EachAnswers, Answered, GivenBy
    <3>9. DOMAIN Sorted = 1 .. Len(Agents) /\ Len(Agents) \in Nat
      BY AgentsAre
    <3> HIDE DEF T
    <3>10. final \in [1 .. Len(Agents) -> T]
      BY <3>5, <3>8, <3>9, Zenon
    <3>11. final \in Seq(T)
      BY <3>9, <3>10
    <3> QED BY <3>7, <3>11
  <2> QED BY <1>2, <2>1, <2>2
<1> HIDE DEF final, results
<1>5. /\ call' \in [Clients -> CallRecords]
      /\ call'[c].at = "returned" /\ call'[c].results = final
      /\ \A d \in Clients : d # c => call'[d] = call[d]
      /\ \A d \in Clients : call'[d].submitted = call[d].submitted
  <2>1. PoolTypes
    BY DEF PoolInv
  <2> QED BY <1>1, <1>4, <2>1, ResultsMove DEF T
<1>6. CallHolds(c)'
  BY <1>1, <1>4, <1>5 DEF CallHolds
<1> QED BY <1>1, <1>5, <1>6, ResultsKeep

(* The calls of clients, when the pool or close() takes a step. *)
LEMMA CallsStay ==
  ASSUME PoolInv, DoneStays, call' = call
  PROVE  CallsHold'
<1>1. ASSUME NEW c \in Clients PROVE CallHolds(c)'
  BY CallsHoldOn DEF PoolInv, CallsHold
<1> QED BY <1>1 DEF CallsHold

(* A worker takes the future that waited longest. *)
LEMMA WorkKeeps ==
  ASSUME PoolInv, Pool!Work
  PROVE  PoolInv'
<1> DEFINE f == Head(waiting)
           m == Len(waiting)
<1>1. /\ waiting # << >> /\ running' = running \cup {f} /\ waiting' = Tail(waiting)
      /\ UNCHANGED <<kind, owns, closing, call, outcome>>
  BY DEF Pool!Work
<1>2. waiting \in Seq(Pool!Futures) /\ running \subseteq Pool!Futures
  BY DEF PoolInv, PoolTypes
<1>3. /\ m \in Nat /\ m >= 1 /\ f = waiting[1] /\ f \in Pool!Futures
      /\ waiting' \in Seq(Pool!Futures) /\ Len(waiting') = m - 1
      /\ \A i \in 1 .. (m - 1) : waiting'[i] = waiting[i + 1]
  BY <1>1, <1>2
<1>4. /\ \A i, j \in 1 .. m : waiting[i] = waiting[j] => i = j
      /\ \A i \in 1 .. m : waiting[i] \notin running /\ outcome[waiting[i]] = "none"
      /\ \A g \in running : outcome[g] = "none"
  BY DEF PoolInv, OneAtATime
<1> HIDE DEF f, m
<1>5. \A i \in 1 .. (m - 1) : i + 1 \in 1 .. m /\ i + 1 # 1
  BY <1>3
<1>6. 1 \in 1 .. m
  BY <1>3
<1>7. PoolTypes'
  BY <1>1, <1>2, <1>3 DEF PoolInv, PoolTypes
<1>8. OneAtATime'
  <2>1. \A i, j \in 1 .. (m - 1) : waiting'[i] = waiting'[j] => i = j
    <3> SUFFICES ASSUME NEW i \in 1 .. (m - 1), NEW j \in 1 .. (m - 1),
                        waiting'[i] = waiting'[j]
                 PROVE  i = j
      OBVIOUS
    <3>1. waiting[i + 1] = waiting[j + 1] /\ i + 1 \in 1 .. m /\ j + 1 \in 1 .. m
      BY <1>3, <1>5
    <3>2. i + 1 = j + 1
      BY <1>4, <3>1, Zenon
    <3> QED BY <1>3, <3>2
  <2>2. \A i \in 1 .. (m - 1) : waiting'[i] \notin running' /\ outcome[waiting'[i]] = "none"
    <3> TAKE i \in 1 .. (m - 1)
    <3>1. waiting'[i] = waiting[i + 1] /\ i + 1 \in 1 .. m /\ i + 1 # 1
      BY <1>3, <1>5
    <3>2. waiting[i + 1] # waiting[1]
      BY <1>4, <1>6, <3>1, Zenon
    <3>3. waiting[i + 1] \notin running /\ outcome[waiting[i + 1]] = "none"
      BY <1>4, <3>1, Zenon
    <3> QED BY <1>1, <1>3, <3>1, <3>2, <3>3
  <2>3. \A g \in running' : outcome[g] = "none"
    BY <1>1, <1>3, <1>4, <1>6
  <2>4. Len(waiting') = m - 1 /\ outcome' = outcome
    BY <1>1, <1>3
  <2> QED BY <2>1, <2>2, <2>3, <2>4 DEF OneAtATime
<1>9. \A g \in Pool!Futures : Entered(g)' => Entered(g)
  <2> SUFFICES ASSUME NEW g \in Pool!Futures, Entered(g)' PROVE Entered(g)
    OBVIOUS
  <2>1. \/ \E i \in 1 .. (m - 1) : waiting'[i] = g
        \/ g \in running' \/ outcome[g] # "none"
    BY <1>1, <1>3 DEF Entered
  <2>2. ASSUME NEW i \in 1 .. (m - 1), waiting'[i] = g PROVE \E j \in 1 .. m : waiting[j] = g
    BY <1>3, <1>5, <2>2
  <2>3. ASSUME g \in running', g \notin running PROVE \E j \in 1 .. m : waiting[j] = g
    BY <1>1, <1>3, <1>6, <2>3
  <2> QED BY <2>1, <2>2, <2>3 DEF Entered, m
<1>10. OnlySubmitted'
  BY <1>1, <1>9, NothingEntered DEF PoolInv
<1>11. CallsHold'
  BY <1>1, SameOutcomes, CallsStay
<1>12. ClosedIsEmpty'
  <2>1. ~(owns /\ closing # "open")
    BY <1>1 DEF PoolInv, ClosedIsEmpty
  <2>2. ~(owns /\ closing = "closed")
    BY <2>1
  <2> QED BY <1>1, <2>1, <2>2 DEF ClosedIsEmpty
<1> QED BY <1>7, <1>8, <1>10, <1>11, <1>12 DEF PoolInv

(* The steps of the workers and of close().                                *)
LEMMA EndsKeeps ==
  ASSUME PoolInv, NEW f \in Pool!Futures, Pool!AgentEnds(f)
  PROVE  PoolInv'
<1>1. /\ f \in running /\ running' = running \ {f}
      /\ UNCHANGED <<kind, owns, closing, call, waiting>>
  BY DEF Pool!AgentEnds
<1>2. PICK end \in {"signal", "error"} : outcome' = [outcome EXCEPT ![f] = end]
  BY DEF Pool!AgentEnds
<1>3. /\ outcome \in [Pool!Futures -> {"none", "signal", "error", "cancelled"}]
      /\ running \subseteq Pool!Futures /\ waiting \in Seq(Pool!Futures)
  BY DEF PoolInv, PoolTypes
<1>4. /\ outcome' \in [Pool!Futures -> {"none", "signal", "error", "cancelled"}]
      /\ outcome'[f] = end /\ \A g \in Pool!Futures : g # f => outcome'[g] = outcome[g]
  BY <1>2, <1>3
<1>5. /\ \A i, j \in 1 .. Len(waiting) : waiting[i] = waiting[j] => i = j
      /\ \A i \in 1 .. Len(waiting) : waiting[i] \notin running /\ outcome[waiting[i]] = "none"
      /\ \A g \in running : outcome[g] = "none"
  BY DEF PoolInv, OneAtATime
<1>6. PoolTypes'
  BY <1>1, <1>3, <1>4 DEF PoolInv, PoolTypes
<1>7. OneAtATime'
  <2>1. \A i \in 1 .. Len(waiting) : waiting[i] # f /\ waiting[i] \in Pool!Futures
    BY <1>1, <1>3, <1>5
  <2>2. \A i \in 1 .. Len(waiting) : waiting[i] \notin running' /\ outcome'[waiting[i]] = "none"
    BY <1>1, <1>4, <1>5, <2>1
  <2>3. \A g \in running' : outcome'[g] = "none"
    BY <1>1, <1>3, <1>4, <1>5
  <2>4. waiting' = waiting
    BY <1>1
  <2> QED BY <1>5, <2>2, <2>3, <2>4 DEF OneAtATime
<1>8. \A g \in Pool!Futures : Entered(g)' => Entered(g)
  <2>1. Entered(f)
    BY <1>1 DEF Entered
  <2>2. ASSUME NEW g \in Pool!Futures, g # f, Entered(g)' PROVE Entered(g)
    BY <1>1, <1>4, <2>2 DEF Entered
  <2> QED BY <2>1, <2>2
<1>9. OnlySubmitted'
  BY <1>1, <1>8, NothingEntered DEF PoolInv
<1>10. CallsHold'
  <2>1. Kept(outcome, outcome')
    <3>1. outcome[f] = "none"
      BY <1>1, <1>5
    <3> QED BY <1>4, <3>1 DEF Kept
  <2>2. Pool!Shut => Pool!Shut'
    BY <1>1 DEF Pool!Shut
  <2> QED BY <1>1, <2>1, <2>2, CallsStay DEF DoneStays
<1>11. ClosedIsEmpty'
  BY <1>1 DEF PoolInv, ClosedIsEmpty
<1> QED BY <1>6, <1>7, <1>9, <1>10, <1>11 DEF PoolInv

(* Nothing that is done is cancelled, and what waits is there no more.     *)
LEMMA CloseKeeps ==
  ASSUME PoolInv, Pool!Close
  PROVE  PoolInv'
<1>1. closing = "open" /\ UNCHANGED <<kind, owns, call, running>>
  BY DEF Pool!Close
<1>2. /\ outcome \in [Pool!Futures -> {"none", "signal", "error", "cancelled"}]
      /\ running \subseteq Pool!Futures /\ waiting \in Seq(Pool!Futures) /\ owns \in BOOLEAN
  BY DEF PoolInv, PoolTypes
<1>3. /\ \A i \in 1 .. Len(waiting) : waiting[i] \notin running /\ outcome[waiting[i]] = "none"
      /\ \A g \in running : outcome[g] = "none"
  BY DEF PoolInv, OneAtATime
<1>4. CASE owns
  <2>1. /\ closing' = "closing" /\ waiting' = << >>
        /\ outcome' = [g \in Pool!Futures |->
                         IF g \in Pool!ToSet(waiting) THEN "cancelled" ELSE outcome[g]]
    BY <1>4 DEF Pool!Close
  <2>2. \A g : g \in Pool!ToSet(waiting) <=> \E i \in 1 .. Len(waiting) : waiting[i] = g
    <3>1. DOMAIN waiting = 1 .. Len(waiting)
      BY <1>2
    <3> QED BY <3>1, PoolOperators, Zenon DEF ToSet
  <2>3. \A g \in Pool!Futures :
          /\ outcome'[g] \in {"none", "signal", "error", "cancelled"}
          /\ g \in Pool!ToSet(waiting) => outcome'[g] = "cancelled"
          /\ g \notin Pool!ToSet(waiting) => outcome'[g] = outcome[g]
    BY <1>2, <2>1
  <2>4. outcome' \in [Pool!Futures -> {"none", "signal", "error", "cancelled"}]
    BY <2>1, <2>3
  <2>5. Len(waiting') = 0 /\ waiting' \in Seq(Pool!Futures)
    BY <2>1
  <2>6. PoolTypes'
    BY <1>1, <2>1, <2>4, <2>5 DEF PoolInv, PoolTypes
  <2>7. \A g \in running : g \in Pool!Futures /\ g \notin Pool!ToSet(waiting)
    BY <1>2, <1>3, <2>2
  <2>8. OneAtATime'
    <3>1. \A g \in running' : outcome'[g] = "none"
      BY <1>1, <1>3, <2>3, <2>7
    <3> QED BY <2>5, <3>1 DEF OneAtATime
  <2>9. \A g \in Pool!Futures : Entered(g)' => Entered(g)
    <3> SUFFICES ASSUME NEW g \in Pool!Futures, Entered(g)' PROVE Entered(g)
      OBVIOUS
    <3>1. g \in running \/ outcome'[g] # "none"
      BY <1>1, <2>5 DEF Entered
    <3>2. CASE g \in Pool!ToSet(waiting)
      BY <2>2, <3>2 DEF Entered
    <3>3. CASE g \notin Pool!ToSet(waiting)
      BY <2>3, <3>1, <3>3 DEF Entered
    <3> QED BY <3>2, <3>3
  <2>10. OnlySubmitted'
    BY <1>1, <2>9, NothingEntered DEF PoolInv
  <2>11. CallsHold'
    <3>1. Kept(outcome, outcome')
      <4>1. \A g \in Pool!Futures : outcome[g] # "none" => g \notin Pool!ToSet(waiting)
        BY <1>3, <2>2
      <4> QED BY <2>3, <4>1 DEF Kept
    <3>2. Pool!Shut'
      BY <1>1, <1>4, <2>1 DEF Pool!Shut
    <3> QED BY <1>1, <3>1, <3>2, CallsStay DEF DoneStays
  <2>12. ClosedIsEmpty'
    BY <2>1 DEF ClosedIsEmpty
  <2> QED BY <2>6, <2>8, <2>10, <2>11, <2>12 DEF PoolInv
<1>5. CASE ~owns
  <2>1. closing' = "closed" /\ outcome' = outcome /\ waiting' = waiting
    BY <1>5 DEF Pool!Close
  <2>2. PoolTypes'
    BY <1>1, <2>1 DEF PoolInv, PoolTypes
  <2>3. OneAtATime'
    BY <1>1, <2>1 DEF PoolInv, OneAtATime
  <2>4. OnlySubmitted'
    BY <1>1, <2>1 DEF PoolInv, OnlySubmitted, Entered
  <2>5. CallsHold'
    <3>1. Kept(outcome, outcome')
      BY <2>1, KeptItself
    <3>2. ~Pool!Shut
      BY <1>5 DEF Pool!Shut
    <3> QED BY <1>1, <3>1, <3>2, CallsStay DEF DoneStays
  <2>6. ClosedIsEmpty'
    BY <1>1, <1>5 DEF ClosedIsEmpty
  <2> QED BY <2>2, <2>3, <2>4, <2>5, <2>6 DEF PoolInv
<1> QED BY <1>4, <1>5

LEMMA JoinedKeeps ==
  ASSUME PoolInv, Pool!Joined
  PROVE  PoolInv'
<1>1. /\ closing = "closing" /\ running = {} /\ closing' = "closed"
      /\ UNCHANGED <<kind, owns, call, waiting, running, outcome>>
  BY DEF Pool!Joined
<1>2. PoolTypes'
  BY <1>1 DEF PoolInv, PoolTypes
<1>3. OneAtATime' /\ OnlySubmitted'
  BY <1>1 DEF PoolInv, OneAtATime, OnlySubmitted, Entered
<1>4. CallsHold'
  <2>1. Kept(outcome, outcome')
    BY <1>1, KeptItself
  <2>2. Pool!Shut => Pool!Shut'
    BY <1>1 DEF Pool!Shut
  <2> QED BY <1>1, <2>1, <2>2, CallsStay DEF DoneStays
<1>5. ClosedIsEmpty'
  BY <1>1 DEF PoolInv, ClosedIsEmpty
<1> QED BY <1>2, <1>3, <1>4, <1>5 DEF PoolInv

(* A step of another component.                                            *)
LEMMA PoolQuiet ==
  ASSUME PoolInv, UNCHANGED poolVars
  PROVE  PoolInv'
<1>1. UNCHANGED <<kind, owns, closing, call, waiting, running, outcome>>
  BY DEF poolVars
<1>2. PoolTypes' /\ OneAtATime' /\ OnlySubmitted' /\ ClosedIsEmpty'
  BY <1>1 DEF PoolInv, PoolTypes, OneAtATime, OnlySubmitted, Entered, ClosedIsEmpty
<1>3. CallsHold'
  BY <1>1, SameOutcomes, CallsStay
<1> QED BY <1>2, <1>3 DEF PoolInv

(* Every step keeps the invariant.                                         *)
LEMMA PoolNext == PoolInv /\ [Next]_all => PoolInv'
<1> SUFFICES ASSUME PoolInv, [Next]_all PROVE PoolInv'
  OBVIOUS
<1>1. CASE PoolStep(Pool!Next)
  <2>1. \/ \E c \in Clients : Pool!Begin(c) \/ Pool!Step(c)
        \/ \E f \in Pool!Futures : Pool!AgentEnds(f)
        \/ Pool!Work \/ Pool!Close \/ Pool!Joined
    BY <1>1, Zenon DEF PoolStep, Pool!Next
  <2>2. ASSUME NEW c \in Clients, Pool!Begin(c) \/ Pool!Step(c) PROVE PoolInv'
    BY <2>2, CallKeeps, SubmitKeeps, SubmittedKeeps, CollectKeeps, ReturnKeeps DEF Pool!Step
  <2> QED BY <2>1, <2>2, EndsKeeps, WorkKeeps, CloseKeeps, JoinedKeeps
<1>2. CASE ~PoolStep(Pool!Next)
  <2>1. UNCHANGED poolVars
    BY <1>2 DEF Next, StreamStep, StoreStep, BridgeStep, PolicyStep, MasterStep, QuotesStep, all
  <2> QED BY <2>1, PoolQuiet
<1> QED BY <1>1, <1>2

(* Agents fail alone: whatever the order in which clients submit, workers  *)
(* work, agents end and the pool is closed, a call that returns has one    *)
(* result of each agent in the order of its caller, none of another call,  *)
(* and raises only after close() (ParallelSignalEngine.infer,              *)
(* IndependentAgentHub.infer).                                             *)
THEOREM AgentsFailAlone == Spec => []Pool!FailuresIsolated
<1>1. PoolInv => Pool!FailuresIsolated
  BY PoolMeans
<1> QED BY <1>1, PoolInit, PoolNext, PTL DEF Spec

-----------------------------------------------------------------------------
(* THE EXECUTION STATE STORE (StateStore) *)

Lines ==
  [torn : BOOLEAN, ended : BOOLEAN, event : Seq(Events), previous : Seq(Events),
   hash : Seq(Events)]

Whole(line) ==
  /\ ~line.torn /\ line.event # << >>
  /\ line.hash = Append(line.previous, Head(line.event))

(* The hash of the k-th line in ks, and of no line. *)
KeptHash(file, ks, k) == IF k = 0 THEN << >> ELSE file[ks[k]].hash

(* The k-th line in ks is the last of them before line i. *)
Before(ks, k, i) ==
  /\ k \in 0 .. Len(ks)
  /\ k # 0 => ks[k] < i
  /\ k # Len(ks) => i <= ks[k + 1]

(* The lines ks of a file are chained, and stand in its order. *)
KeptChain(file, ks) ==
  /\ \A k \in 1 .. Len(ks) :
       /\ ks[k] \in 1 .. Len(file) /\ file[ks[k]].ended /\ Whole(file[ks[k]])
       /\ file[ks[k]].previous = KeptHash(file, ks, k - 1)
       /\ Len(file[ks[k]].hash) = k
  /\ \A j, k \in 1 .. Len(ks) : j < k => ks[j] < ks[k]

(* Every line names the kept line before it, and only the last may lack    *)
(* its line feed.                                                          *)
Chained(file, ks) ==
  \A i \in 1 .. Len(file) :
    /\ Whole(file[i])
    /\ i < Len(file) => file[i].ended
    /\ \E k : Before(ks, k, i) /\ file[i].previous = KeptHash(file, ks, k)

StoreTypes ==
  /\ lines \in Seq(Lines)
  /\ alive \in BOOLEAN
  /\ lastHash \in Seq(Events)
  /\ writing \in {<< >>} \cup {<<event>> : event \in Events}
  /\ kept \in Seq(Nat)

(* While the file parses and a line feed ends it, the object's cached hash *)
(* is that of the line kept last, and the line of an append() under way    *)
(* comes after it.                                                         *)
StoreInv ==
  /\ StoreTypes
  /\ KeptChain(lines, kept)
  /\ Store!Parses(lines) => Chained(lines, kept)
  /\ alive /\ Store!Parses(lines) /\ Store!Ends(lines) =>
       lastHash = KeptHash(lines, kept, Len(kept))
  /\ writing # << >> =>
       /\ alive /\ lines # << >> /\ Store!Ends(lines)
       /\ Store!Parses(lines) =>
            /\ lines[Len(lines)].event = writing
            /\ kept # << >> => kept[Len(kept)] < Len(lines)

-----------------------------------------------------------------------------
(* SEQUENCES *)

LEMMA SequenceIsFunction ==
  ASSUME NEW S, NEW s \in Seq(S)
  PROVE  Len(s) \in Nat /\ DOMAIN s = 1 .. Len(s) /\ s = [i \in 1 .. Len(s) |-> s[i]]
OBVIOUS

(* What appending does to a sequence. *)
LEMMA AppendIs ==
  ASSUME NEW S, NEW s \in Seq(S), NEW e \in S
  PROVE  /\ Append(s, e) \in Seq(S) /\ Len(Append(s, e)) = Len(s) + 1
         /\ \A i \in 1 .. Len(s) : Append(s, e)[i] = s[i]
         /\ Append(s, e)[Len(s) + 1] = e
OBVIOUS

(* A number is added to a hash with every event hashed into it. *)
LEMMA NumberedAppend ==
  ASSUME NEW hash \in Seq(Events), NEW event \in Events
  PROVE  Store!Numbered(Append(hash, event)) =
           Append(Store!Numbered(hash), <<Len(hash) + 1, event>>)
<1> DEFINE old == Store!Numbered(hash)
           pair == <<Len(hash) + 1, event>>
<1>1. Len(hash) \in Nat /\ DOMAIN hash = 1 .. Len(hash)
  OBVIOUS
<1>2. old = [i \in 1 .. Len(hash) |-> <<i, hash[i]>>]
  BY <1>1 DEF Store!Numbered
<1>3. old \in Seq(Nat \X Events) /\ Len(old) = Len(hash)
  BY <1>1, <1>2
<1>4. pair \in Nat \X Events
  BY <1>1
<1> HIDE DEF old, pair
<1>5. /\ DOMAIN Append(old, pair) = 1 .. Len(hash) + 1
      /\ \A i \in 1 .. Len(hash) : Append(old, pair)[i] = old[i]
      /\ Append(old, pair)[Len(hash) + 1] = pair
      /\ Append(old, pair) = [i \in 1 .. Len(hash) + 1 |-> Append(old, pair)[i]]
  <2> DEFINE Pairs == Nat \X Events
  <2>1. old \in Seq(Pairs) /\ pair \in Pairs
    BY <1>3, <1>4
  <2> HIDE DEF Pairs
  <2>2. Append(old, pair) \in Seq(Pairs) /\ Len(Append(old, pair)) = Len(hash) + 1
    BY <1>3, <2>1, AppendIs
  <2>3. /\ \A i \in 1 .. Len(hash) : Append(old, pair)[i] = old[i]
        /\ Append(old, pair)[Len(hash) + 1] = pair
    BY <1>3, <2>1, AppendIs
  <2>4. /\ DOMAIN Append(old, pair) = 1 .. Len(Append(old, pair))
        /\ Append(old, pair) =
             [i \in 1 .. Len(Append(old, pair)) |-> Append(old, pair)[i]]
    BY <2>2, SequenceIsFunction
  <2> QED BY <2>2, <2>3, <2>4
<1>6. /\ DOMAIN Append(hash, event) = 1 .. Len(hash) + 1
      /\ \A i \in 1 .. Len(hash) : Append(hash, event)[i] = hash[i]
      /\ Append(hash, event)[Len(hash) + 1] = event
  BY <1>1
<1>7. Store!Numbered(Append(hash, event)) =
        [i \in 1 .. Len(hash) + 1 |-> <<i, Append(hash, event)[i]>>]
  BY <1>6 DEF Store!Numbered
<1>8. ASSUME NEW i \in 1 .. Len(hash) + 1
      PROVE  <<i, Append(hash, event)[i]>> = Append(old, pair)[i]
  <2>1. CASE i = Len(hash) + 1
    BY <1>5, <1>6, <2>1 DEF pair
  <2>2. CASE i # Len(hash) + 1
    BY <1>1, <1>2, <1>5, <1>6, <2>2
  <2> QED BY <2>1, <2>2
<1>9. Store!Numbered(Append(hash, event)) = Append(old, pair)
  BY <1>5, <1>7, <1>8
<1> QED BY <1>9 DEF old, pair

-----------------------------------------------------------------------------
(* WHAT A WRITE LEAVES *)

LEMMA LineTypes ==
  ASSUME NEW event \in Events, NEW hash \in Seq(Events), NEW ended \in BOOLEAN
  PROVE  Store!LineOf(event, hash, ended) \in Lines /\ Store!TornLine(ended) \in Lines
<1>1. <<event>> \in Seq(Events) /\ << >> \in Seq(Events) /\ Append(hash, event) \in Seq(Events)
  OBVIOUS
<1> QED BY <1>1 DEF Lines, Store!LineOf, Store!TornLine, Store!Genesis

LEMMA FileEnds ==
  ASSUME NEW file \in Seq(Lines)
  PROVE  /\ Len(file) \in Nat /\ DOMAIN file = 1 .. Len(file)
         /\ file # << >> <=> Len(file) >= 1
         /\ Store!Ends(file) <=> (file = << >> \/ file[Len(file)].ended)
         /\ Store!Parses(file) <=> \A i \in 1 .. Len(file) : ~file[i].torn
<1> HIDE DEF Lines
<1>1. Len(file) \in Nat /\ DOMAIN file = 1 .. Len(file) /\ (file # << >> <=> Len(file) >= 1)
  OBVIOUS
<1> QED BY <1>1 DEF Store!Ends, Store!Last, Store!Parses

(* Text added to a file leaves every line but a last one without its line  *)
(* feed, and the file parses afterwards only if it did, the line is whole  *)
(* and on a line of its own.                                               *)
Added(file, line, next) ==
  /\ next \in Seq(Lines) /\ next # << >> /\ next[Len(next)].ended = line.ended
  /\ Len(next) \in Nat /\ Len(file) <= Len(next) /\ Len(next) <= Len(file) + 1
  /\ \A i \in 1 .. Len(file) :
       next[i] = file[i] \/ (i = Len(file) /\ ~file[i].ended /\ ~Store!Parses(next))
  /\ Store!Parses(next) =>
       /\ Store!Parses(file) /\ Store!Ends(file) /\ ~line.torn
       /\ Len(next) = Len(file) + 1 /\ next[Len(file) + 1] = line
       /\ \A i \in 1 .. Len(file) : next[i] = file[i]

LEMMA PutFile ==
  ASSUME NEW file \in Seq(Lines), NEW line \in Lines
  PROVE  Added(file, line, Store!Put(file, line))
<1> DEFINE next == Store!Put(file, line)
<1>1. /\ Len(file) \in Nat /\ DOMAIN file = 1 .. Len(file)
      /\ file # << >> <=> Len(file) >= 1
      /\ Store!Ends(file) <=> (file = << >> \/ file[Len(file)].ended)
  BY FileEnds
<1>2. CASE Store!Ends(file)
  <2>1. next = Append(file, line)
    BY <1>2 DEF Store!Put
  <2> HIDE DEF next
  <2>2. /\ next \in Seq(Lines) /\ Len(next) = Len(file) + 1
        /\ \A i \in 1 .. Len(file) : next[i] = file[i]
        /\ next[Len(file) + 1] = line
    BY <2>1, AppendIs
  <2>3. next # << >> /\ (Store!Parses(next) <=> \A i \in 1 .. Len(next) : ~next[i].torn)
    BY <1>1, <2>2, FileEnds
  <2>4. Store!Parses(next) => Store!Parses(file) /\ ~line.torn
    <3>1. Len(file) + 1 \in 1 .. Len(next) /\ 1 .. Len(file) \subseteq 1 .. Len(next)
      BY <1>1, <2>2
    <3>2. Store!Parses(file) <=> \A i \in 1 .. Len(file) : ~file[i].torn
      BY FileEnds
    <3> QED BY <2>2, <2>3, <3>1, <3>2
  <2>5. next[Len(next)].ended = line.ended
    BY <2>2
  <2>6. Len(next) \in Nat /\ Len(file) <= Len(next) /\ Len(next) <= Len(file) + 1
    BY <1>1, <2>2
  <2>7. Added(file, line, next)
    BY <1>2, <2>2, <2>3, <2>4, <2>5, <2>6 DEF Added
  <2> QED BY <2>7 DEF next
<1>3. CASE ~Store!Ends(file)
  <2> DEFINE torn == Store!TornLine(line.ended)
  <2>1. next = [file EXCEPT ![Len(file)] = torn]
    BY <1>3 DEF Store!Put
  <2> HIDE DEF next
  <2>2. torn \in Lines /\ torn.torn /\ torn.ended = line.ended
    <3>1. line.ended \in BOOLEAN /\ << >> \in Seq(Events)
      BY DEF Lines
    <3> QED BY <3>1 DEF Store!TornLine, Lines, Store!Genesis
  <2> HIDE DEF torn
  <2>3. Len(file) \in 1 .. Len(file) /\ ~file[Len(file)].ended
    BY <1>1, <1>3
  <2>4. /\ next \in Seq(Lines) /\ Len(next) = Len(file)
        /\ \A i \in 1 .. Len(file) : next[i] = IF i = Len(file) THEN torn ELSE file[i]
    <3> HIDE DEF Lines
    <3> QED BY <1>1, <2>1, <2>2, <2>3
  <2>5. next[Len(next)] = torn /\ Len(next) \in 1 .. Len(next)
    BY <2>3, <2>4
  <2>6. ~Store!Parses(next) /\ next # << >>
    <3>1. /\ next # << >> <=> Len(next) >= 1
          /\ Store!Parses(next) <=> \A i \in 1 .. Len(next) : ~next[i].torn
      BY <2>4, FileEnds
    <3> QED BY <1>1, <2>2, <2>5, <3>1
  <2>7. \A i \in 1 .. Len(file) :
          next[i] = file[i] \/ (i = Len(file) /\ ~file[i].ended /\ ~Store!Parses(next))
    BY <2>3, <2>4, <2>6
  <2>8. Len(next) \in Nat /\ Len(file) <= Len(next) /\ Len(next) <= Len(file) + 1
    <3>1. Len(next) = Len(file)
      BY <2>4
    <3>2. Len(file) \in Nat
      BY <1>1
    <3> QED BY <3>1, <3>2
  <2>9. Added(file, line, next)
    BY <2>2, <2>4, <2>5, <2>6, <2>7, <2>8 DEF Added
  <2> QED BY <2>9 DEF next
<1> QED BY <1>2, <1>3 DEF next

(* Only one kept line is the last before a line. *)
LEMMA BeforeOnce ==
  ASSUME NEW file, NEW ks \in Seq(Nat), KeptChain(file, ks), NEW i \in Nat,
         NEW j, Before(ks, j, i), NEW k, Before(ks, k, i)
  PROVE  j = k
<1>1. /\ Len(ks) \in Nat /\ j \in 0 .. Len(ks) /\ k \in 0 .. Len(ks)
      /\ \A m \in 1 .. Len(ks) : ks[m] \in Nat
  BY DEF Before
<1>2. ASSUME NEW m \in 1 .. Len(ks), NEW n \in 1 .. Len(ks), m <= n PROVE ks[m] <= ks[n]
  BY <1>1, <1>2 DEF KeptChain
<1>3. ASSUME NEW m \in 0 .. Len(ks), NEW n \in 0 .. Len(ks), m < n,
             Before(ks, m, i), Before(ks, n, i)
      PROVE  FALSE
  <2>1. m + 1 \in 1 .. Len(ks) /\ n \in 1 .. Len(ks) /\ m + 1 <= n /\ m # Len(ks) /\ n # 0
    BY <1>1, <1>3
  <2>2. i <= ks[m + 1] /\ ks[n] < i
    BY <1>3, <2>1 DEF Before
  <2>3. ks[m + 1] <= ks[n] /\ ks[m + 1] \in Nat /\ ks[n] \in Nat
    BY <1>1, <1>2, <2>1
  <2> QED BY <2>2, <2>3
<1>4. ~(j < k) /\ ~(k < j)
  BY <1>1, <1>3
<1> QED BY <1>1, <1>4

-----------------------------------------------------------------------------
(* THE INVARIANT *)

LEMMA StoreInit == Init => StoreInv
<1> SUFFICES ASSUME lines = << >>, alive = FALSE, lastHash = << >>, writing = << >>, kept = << >>
             PROVE  StoreInv
  BY DEF Init, Store!Init, Store!Genesis
<1>1. /\ Len(lines) = 0 /\ Len(kept) = 0 /\ << >> \in Seq(Lines) /\ << >> \in Seq(Events)
      /\ << >> \in Seq(Nat) /\ 1 .. 0 = {}
  OBVIOUS
<1>2. StoreTypes
  BY <1>1 DEF StoreTypes
<1> QED BY <1>1, <1>2 DEF StoreInv, KeptChain, Chained

LEMMA StoreFacts ==
  ASSUME StoreInv
  PROVE  /\ lines \in Seq(Lines) /\ kept \in Seq(Nat) /\ lastHash \in Seq(Events)
         /\ Len(lines) \in Nat /\ Len(kept) \in Nat
         /\ DOMAIN lines = 1 .. Len(lines) /\ DOMAIN kept = 1 .. Len(kept)
         /\ lines # << >> <=> Len(lines) >= 1
         /\ kept # << >> <=> Len(kept) >= 1
         /\ Store!Ends(lines) <=> (lines = << >> \/ lines[Len(lines)].ended)
<1>1. lines \in Seq(Lines) /\ kept \in Seq(Nat) /\ lastHash \in Seq(Events)
  BY DEF StoreInv, StoreTypes
<1> QED BY <1>1, FileEnds

(* Nothing that is written touches a kept line, and while the file parses  *)
(* a new line names the one kept last.                                     *)
LEMMA PutKeeps ==
  ASSUME StoreInv, alive, NEW line \in Lines, lines' = Store!Put(lines, line),
         kept' = kept, line.torn \/ (Whole(line) /\ line.previous = lastHash)
  PROVE  /\ KeptChain(lines', kept') /\ lines' \in Seq(Lines)
         /\ Store!Parses(lines') => Chained(lines', kept')
         /\ KeptHash(lines', kept', Len(kept')) = KeptHash(lines, kept, Len(kept))
         /\ (Store!Parses(lines') /\ kept # << >>) => kept[Len(kept)] < Len(lines')
<1>1. /\ lines \in Seq(Lines) /\ kept \in Seq(Nat) /\ Len(lines) \in Nat /\ Len(kept) \in Nat
      /\ DOMAIN lines = 1 .. Len(lines) /\ (kept # << >> <=> Len(kept) >= 1)
      /\ Store!Ends(lines) <=> (lines = << >> \/ lines[Len(lines)].ended)
  BY StoreFacts
<1>2. /\ lines' \in Seq(Lines) /\ lines' # << >> /\ Len(lines') \in Nat
      /\ Len(lines) <= Len(lines')
      /\ \A i \in 1 .. Len(lines) : lines'[i] = lines[i] \/ ~lines[i].ended
      /\ Store!Parses(lines') =>
           /\ Store!Parses(lines) /\ Store!Ends(lines) /\ ~line.torn
           /\ Len(lines') = Len(lines) + 1 /\ lines'[Len(lines) + 1] = line
           /\ \A i \in 1 .. Len(lines) : lines'[i] = lines[i]
  <2>1. Added(lines, line, lines')
    BY <1>1, PutFile
  <2> QED BY <2>1 DEF Added
<1>3. /\ \A k \in 1 .. Len(kept) : kept[k] \in 1 .. Len(lines) /\ lines[kept[k]].ended
      /\ KeptChain(lines, kept)
  BY DEF StoreInv, KeptChain
<1>4. \A k \in 1 .. Len(kept) : lines'[kept[k]] = lines[kept[k]] /\ kept[k] \in 1 .. Len(lines')
  BY <1>1, <1>2, <1>3
<1>5. \A k \in 0 .. Len(kept) : KeptHash(lines', kept', k) = KeptHash(lines, kept, k)
  BY <1>1, <1>4 DEF KeptHash
<1>6. KeptChain(lines', kept')
  <2>1. ASSUME NEW k \in 1 .. Len(kept)
        PROVE  /\ kept[k] \in 1 .. Len(lines') /\ lines'[kept[k]].ended
               /\ Whole(lines'[kept[k]]) /\ Len(lines'[kept[k]].hash) = k
               /\ lines'[kept[k]].previous = KeptHash(lines', kept', k - 1)
    <3>1. k - 1 \in 0 .. Len(kept)
      BY <1>1
    <3> QED BY <1>3, <1>4, <1>5, <3>1 DEF KeptChain
  <2> QED BY <1>3, <2>1 DEF KeptChain
<1>7. ASSUME Store!Parses(lines') PROVE Chained(lines', kept')
  <2>1. /\ Chained(lines, kept) /\ lastHash = KeptHash(lines, kept, Len(kept))
        /\ Whole(line) /\ line.previous = lastHash
    BY <1>2, <1>7 DEF StoreInv
  <2>2. ASSUME NEW i \in 1 .. Len(lines')
        PROVE  /\ Whole(lines'[i])
               /\ i < Len(lines') => lines'[i].ended
               /\ \E k : Before(kept', k, i) /\ lines'[i].previous = KeptHash(lines', kept', k)
    <3>1. CASE i = Len(lines) + 1
      <4>1. Before(kept', Len(kept), i)
        <5>1. Len(kept) # 0 => kept[Len(kept)] < i
          BY <1>1, <1>3, <3>1
        <5> QED BY <1>1, <5>1 DEF Before
      <4>2. lines'[i].previous = KeptHash(lines', kept', Len(kept))
        BY <1>1, <1>2, <1>5, <1>7, <2>1, <3>1
      <4> QED BY <1>1, <1>2, <1>7, <2>1, <3>1, <4>1, <4>2
    <3>2. CASE i # Len(lines) + 1
      <4>1. i \in 1 .. Len(lines) /\ lines'[i] = lines[i]
        BY <1>1, <1>2, <1>7, <3>2
      <4>2. PICK k : Before(kept, k, i) /\ lines[i].previous = KeptHash(lines, kept, k)
        BY <2>1, <4>1 DEF Chained
      <4>3. k \in 0 .. Len(kept)
        BY <4>2 DEF Before
      <4>4. lines[i].ended
        <5>1. CASE i < Len(lines)
          BY <2>1, <4>1, <5>1 DEF Chained
        <5>2. CASE i = Len(lines)
          BY <1>1, <1>2, <1>7, <4>1, <5>2
        <5>3. i < Len(lines) \/ i = Len(lines)
          <6>1. Len(lines) \in Nat /\ i \in 1 .. Len(lines)
            BY <1>1, <4>1
          <6> QED BY <6>1
        <5> QED BY <5>1, <5>2, <5>3
      <4> QED BY <1>5, <2>1, <4>1, <4>2, <4>3, <4>4 DEF Chained
    <3> QED BY <3>1, <3>2
  <2> QED BY <2>2 DEF Chained
<1>8. ASSUME Store!Parses(lines'), kept # << >> PROVE kept[Len(kept)] < Len(lines')
  <2>1. Len(kept) \in 1 .. Len(kept) /\ Len(lines') = Len(lines) + 1
    BY <1>1, <1>2, <1>8
  <2>2. kept[Len(kept)] \in 1 .. Len(lines)
    BY <1>3, <2>1
  <2> QED BY <1>1, <2>1, <2>2
<1>9. KeptHash(lines', kept', Len(kept')) = KeptHash(lines, kept, Len(kept))
  BY <1>1, <1>5
<1> QED BY <1>2, <1>6, <1>7, <1>8, <1>9

(* What Keep does: it adds the last line, which is chained to the one kept *)
(* last, or nothing.                                                       *)
LEMMA KeepAdds ==
  ASSUME StoreInv, Store!Keep
  PROVE  \/ /\ kept' = Append(kept, Len(lines))
            /\ Store!Parses(lines) /\ Len(lines) \in 1 .. Len(lines)
            /\ lines[Len(lines)].ended /\ Whole(lines[Len(lines)])
            /\ lines[Len(lines)].previous = KeptHash(lines, kept, Len(kept))
            /\ \A k \in 1 .. Len(kept) : kept[k] < Len(lines)
            /\ Len(lines[Len(lines)].hash) = Len(kept) + 1
         \/ /\ kept' = kept
            /\ Store!Parses(lines) /\ Store!Ends(lines) /\ lines # << >> =>
                 kept # << >> /\ kept[Len(kept)] = Len(lines)
<1>1. /\ lines \in Seq(Lines) /\ kept \in Seq(Nat) /\ Len(lines) \in Nat /\ Len(kept) \in Nat
      /\ (kept # << >> <=> Len(kept) >= 1) /\ (lines # << >> <=> Len(lines) >= 1)
      /\ Store!Ends(lines) <=> (lines = << >> \/ lines[Len(lines)].ended)
  BY StoreFacts
<1>2. kept' = IF /\ lines # << >> /\ Store!Parses(lines) /\ Store!Ends(lines)
                 /\ kept = << >> \/ kept[Len(kept)] < Len(lines)
              THEN Append(kept, Len(lines)) ELSE kept
  BY DEF Store!Keep, Store!Last
<1>3. CASE /\ lines # << >> /\ Store!Parses(lines) /\ Store!Ends(lines)
           /\ kept = << >> \/ kept[Len(kept)] < Len(lines)
  <2>1. Len(lines) \in 1 .. Len(lines) /\ Chained(lines, kept) /\ KeptChain(lines, kept)
    BY <1>1, <1>3 DEF StoreInv
  <2>2. PICK k : Before(kept, k, Len(lines))
                 /\ lines[Len(lines)].previous = KeptHash(lines, kept, k)
    BY <2>1 DEF Chained
  <2>3. Before(kept, Len(kept), Len(lines))
    BY <1>1, <1>3 DEF Before
  <2>4. k = Len(kept)
    BY <1>1, <2>1, <2>2, <2>3, BeforeOnce
  <2>5. ASSUME NEW j \in 1 .. Len(kept) PROVE kept[j] < Len(lines)
    <3>1. Len(kept) \in 1 .. Len(kept) /\ kept # << >> /\ kept[j] \in Nat /\ kept[Len(kept)] \in Nat
      BY <1>1
    <3>2. kept[j] <= kept[Len(kept)]
      <4>1. j < Len(kept) \/ j = Len(kept)
        BY <1>1
      <4> QED BY <2>1, <3>1, <4>1 DEF KeptChain
    <3> QED BY <1>1, <1>3, <3>1, <3>2
  <2>6. Len(lines[Len(lines)].hash) = Len(kept) + 1
    <3> DEFINE line == lines[Len(lines)]
    <3>1. Whole(line) /\ line \in Lines
      BY <1>1, <2>1 DEF Chained
    <3>2. line.previous = KeptHash(lines, kept, Len(kept)) /\ line.previous \in Seq(Events)
      BY <2>2, <2>4, <3>1 DEF Lines
    <3>3. Len(line.previous) = Len(kept)
      BY <1>1, <2>1, <3>2 DEF KeptHash, KeptChain
    <3>4. Head(line.event) \in Events
      BY <3>1 DEF Lines, Whole
    <3>5. line.hash = Append(line.previous, Head(line.event))
      BY <3>1 DEF Whole
    <3> HIDE DEF line
    <3>6. Len(line.hash) = Len(kept) + 1
      BY <3>2, <3>3, <3>4, <3>5
    <3> QED BY <3>6 DEF line
  <2> QED BY <1>1, <1>2, <1>3, <2>1, <2>2, <2>4, <2>5, <2>6 DEF Chained
<1>4. CASE ~(/\ lines # << >> /\ Store!Parses(lines) /\ Store!Ends(lines)
             /\ kept = << >> \/ kept[Len(kept)] < Len(lines))
  <2>1. kept # << >> => kept[Len(kept)] \in 1 .. Len(lines)
    BY <1>1 DEF StoreInv, KeptChain
  <2> QED BY <1>1, <1>2, <1>4, <2>1
<1> QED BY <1>3, <1>4

LEMMA KeepKeeps ==
  ASSUME StoreInv, Store!Keep, lines' = lines
  PROVE  /\ KeptChain(lines', kept') /\ kept' \in Seq(Nat)
         /\ Store!Parses(lines') => Chained(lines', kept')
         /\ Store!Parses(lines) /\ Store!Ends(lines) =>
              KeptHash(lines', kept', Len(kept')) =
                IF lines = << >> THEN << >> ELSE lines[Len(lines)].hash
<1>1. /\ lines \in Seq(Lines) /\ kept \in Seq(Nat) /\ Len(lines) \in Nat /\ Len(kept) \in Nat
      /\ (kept # << >> <=> Len(kept) >= 1) /\ (lines # << >> <=> Len(lines) >= 1)
  BY StoreFacts
<1>2. KeptChain(lines, kept) /\ (Store!Parses(lines) => Chained(lines, kept))
  BY DEF StoreInv
<1>3. CASE /\ kept' = Append(kept, Len(lines))
           /\ Store!Parses(lines) /\ Len(lines) \in 1 .. Len(lines)
           /\ lines[Len(lines)].ended /\ Whole(lines[Len(lines)])
           /\ lines[Len(lines)].previous = KeptHash(lines, kept, Len(kept))
           /\ \A k \in 1 .. Len(kept) : kept[k] < Len(lines)
           /\ Len(lines[Len(lines)].hash) = Len(kept) + 1
  <2>1. /\ kept' \in Seq(Nat) /\ Len(kept') = Len(kept) + 1
        /\ \A k \in 1 .. Len(kept) : kept'[k] = kept[k]
        /\ kept'[Len(kept) + 1] = Len(lines)
    BY <1>1, <1>3, AppendIs, SMTT(30)
  <2>2. \A k \in 0 .. Len(kept) : KeptHash(lines', kept', k) = KeptHash(lines, kept, k)
    BY <1>1, <2>1, SMTT(30) DEF KeptHash
  <2>3. KeptChain(lines', kept')
    <3>1. ASSUME NEW k \in 1 .. Len(kept')
          PROVE  /\ kept'[k] \in 1 .. Len(lines) /\ lines[kept'[k]].ended
                 /\ Whole(lines[kept'[k]]) /\ Len(lines[kept'[k]].hash) = k
                 /\ lines[kept'[k]].previous = KeptHash(lines', kept', k - 1)
      <4>1. CASE k = Len(kept) + 1
        <5>1. k - 1 = Len(kept) /\ k - 1 \in 0 .. Len(kept) /\ kept'[k] = Len(lines)
          BY <1>1, <2>1, <4>1
        <5> QED BY <1>3, <2>2, <4>1, <5>1
      <4>2. CASE k # Len(kept) + 1
        <5>1. k \in 1 .. Len(kept) /\ k - 1 \in 0 .. Len(kept) /\ kept'[k] = kept[k]
          BY <1>1, <2>1, <4>2
        <5> QED BY <1>2, <2>2, <5>1 DEF KeptChain
      <4> QED BY <4>1, <4>2
    <3>2. ASSUME NEW j \in 1 .. Len(kept'), NEW k \in 1 .. Len(kept'), j < k
          PROVE  kept'[j] < kept'[k]
      <4>1. j \in 1 .. Len(kept)
        BY <1>1, <2>1, <3>2
      <4>2. CASE k = Len(kept) + 1
        BY <1>3, <2>1, <4>1, <4>2
      <4>3. CASE k # Len(kept) + 1
        <5>1. k \in 1 .. Len(kept)
          BY <1>1, <2>1, <4>3
        <5> QED BY <1>2, <2>1, <3>2, <4>1, <5>1 DEF KeptChain
      <4> QED BY <4>2, <4>3
    <3> QED BY <3>1, <3>2 DEF KeptChain
  <2>4. ASSUME NEW i \in 1 .. Len(lines)
        PROVE  \E k : Before(kept', k, i) /\ lines[i].previous = KeptHash(lines', kept', k)
    <3>1. PICK k : Before(kept, k, i) /\ lines[i].previous = KeptHash(lines, kept, k)
      BY <1>2, <1>3 DEF Chained
    <3>2. k \in 0 .. Len(kept)
      BY <3>1 DEF Before
    <3>3. Before(kept', k, i)
      <4>1. k # 0 => kept'[k] < i
        BY <1>1, <2>1, <3>1, <3>2 DEF Before
      <4>2. i <= kept'[k + 1]
        <5>1. CASE k = Len(kept)
          BY <1>1, <2>1, <5>1
        <5>2. CASE k # Len(kept)
          <6>1. k + 1 \in 1 .. Len(kept) /\ i <= kept[k + 1]
            BY <1>1, <3>1, <3>2, <5>2 DEF Before
          <6> QED BY <2>1, <6>1
        <5> QED BY <5>1, <5>2
      <4> QED BY <1>1, <2>1, <3>2, <4>1, <4>2 DEF Before
    <3> QED BY <2>2, <3>1, <3>2, <3>3
  <2>5. Chained(lines', kept')
    BY <1>2, <1>3, <2>4 DEF Chained
  <2>6. KeptHash(lines', kept', Len(kept')) = lines[Len(lines)].hash
    BY <1>1, <2>1 DEF KeptHash
  <2> QED BY <1>1, <1>3, <2>1, <2>3, <2>5, <2>6
<1>4. CASE /\ kept' = kept
           /\ Store!Parses(lines) /\ Store!Ends(lines) /\ lines # << >> =>
                kept # << >> /\ kept[Len(kept)] = Len(lines)
  <2>1. lines = << >> => kept = << >>
    BY <1>1, <1>2 DEF KeptChain
  <2>2. Store!Parses(lines) /\ Store!Ends(lines) =>
          KeptHash(lines, kept, Len(kept)) =
            IF lines = << >> THEN << >> ELSE lines[Len(lines)].hash
    BY <1>1, <1>4, <2>1 DEF KeptHash
  <2> QED BY <1>1, <1>2, <1>4, <2>2
<1> QED BY <1>3, <1>4, KeepAdds

LEMMA StoreStepKeeps == StoreInv /\ Store!Next => StoreInv'
<1> SUFFICES ASSUME StoreInv, Store!Next
             PROVE  StoreInv'
  OBVIOUS
<1>1. /\ lines \in Seq(Lines) /\ kept \in Seq(Nat) /\ lastHash \in Seq(Events)
      /\ Len(lines) \in Nat /\ Len(kept) \in Nat
      /\ (kept # << >> <=> Len(kept) >= 1) /\ (lines # << >> <=> Len(lines) >= 1)
      /\ Store!Ends(lines) <=> (lines = << >> \/ lines[Len(lines)].ended)
  BY StoreFacts
<1>2. /\ StoreTypes /\ KeptChain(lines, kept) /\ (Store!Parses(lines) => Chained(lines, kept))
      /\ alive /\ Store!Parses(lines) /\ Store!Ends(lines) =>
           lastHash = KeptHash(lines, kept, Len(kept))
  BY DEF StoreInv
<1>3. ASSUME NEW event \in Events, NEW ended \in BOOLEAN
      PROVE  LET line == Store!LineOf(event, lastHash, ended) IN
             /\ line \in Lines /\ Whole(line) /\ line.previous = lastHash
             /\ line.ended = ended /\ line.event = <<event>>
  BY <1>1, LineTypes DEF Store!LineOf, Whole
<1>4. ASSUME NEW event \in Events, Store!Write(event) PROVE StoreInv'
  <2> DEFINE line == Store!LineOf(event, lastHash, TRUE)
  <2>1. /\ alive /\ alive' = alive /\ lastHash' = lastHash /\ kept' = kept
        /\ writing' = <<event>> /\ lines' = Store!Put(lines, line)
    BY <1>4 DEF Store!Write, Store!Writable
  <2>2. /\ line \in Lines /\ Whole(line) /\ line.previous = lastHash
        /\ line.ended /\ line.event = <<event>>
    BY <1>3
  <2> HIDE DEF line
  <2>3. /\ KeptChain(lines', kept') /\ lines' \in Seq(Lines)
        /\ Store!Parses(lines') => Chained(lines', kept')
        /\ KeptHash(lines', kept', Len(kept')) = KeptHash(lines, kept, Len(kept))
        /\ (Store!Parses(lines') /\ kept # << >>) => kept[Len(kept)] < Len(lines')
    BY <2>1, <2>2, PutKeeps
  <2>4. /\ lines' # << >> /\ lines'[Len(lines')].ended
        /\ Store!Parses(lines') =>
             Store!Parses(lines) /\ Store!Ends(lines) /\ lines'[Len(lines')] = line
    <3>1. Added(lines, line, lines')
      BY <1>1, <2>1, <2>2, PutFile
    <3> QED BY <2>2, <3>1 DEF Added
  <2>5. Store!Ends(lines')
    BY <2>3, <2>4, FileEnds
  <2>6. StoreTypes'
    BY <1>2, <2>1, <2>3 DEF StoreTypes
  <2> QED BY <1>2, <2>1, <2>2, <2>3, <2>4, <2>5, <2>6 DEF StoreInv
<1>5. ASSUME NEW event \in Events, Store!WriteShort(event) PROVE StoreInv'
  <2>1. /\ alive /\ alive' \in BOOLEAN /\ lastHash' = lastHash /\ kept' = kept
        /\ writing = << >> /\ writing' = << >>
        /\ \/ lines' = lines
           \/ lines' = Store!Put(lines, Store!TornLine(FALSE))
           \/ lines' = Store!Put(lines, Store!LineOf(event, lastHash, FALSE))
    BY <1>5 DEF Store!WriteShort, Store!Writable
  <2>2. CASE lines' = lines
    <3>1. StoreTypes'
      BY <1>2, <2>1, <2>2 DEF StoreTypes
    <3> QED BY <1>2, <2>1, <2>2, <3>1 DEF StoreInv
  <2>3. ASSUME NEW line \in Lines, lines' = Store!Put(lines, line), ~line.ended,
               line.torn \/ (Whole(line) /\ line.previous = lastHash)
        PROVE  StoreInv'
    <3>1. /\ KeptChain(lines', kept') /\ lines' \in Seq(Lines)
          /\ Store!Parses(lines') => Chained(lines', kept')
      BY <2>1, <2>3, PutKeeps
    <3>2. lines' # << >> /\ ~lines'[Len(lines')].ended
      <4>1. Added(lines, line, lines')
        BY <1>1, <2>3, PutFile
      <4> QED BY <2>3, <4>1 DEF Added
    <3>3. ~Store!Ends(lines')
      BY <3>1, <3>2, FileEnds
    <3>4. StoreTypes'
      BY <1>2, <2>1, <3>1 DEF StoreTypes
    <3> QED BY <2>1, <3>1, <3>3, <3>4 DEF StoreInv
  <2>4. CASE lines' = Store!Put(lines, Store!TornLine(FALSE))
    <3>1. /\ Store!TornLine(FALSE) \in Lines /\ Store!TornLine(FALSE).torn
          /\ ~Store!TornLine(FALSE).ended
      BY << >> \in Seq(Events) DEF Store!TornLine, Lines, Store!Genesis
    <3> QED BY <2>3, <2>4, <3>1
  <2>5. CASE lines' = Store!Put(lines, Store!LineOf(event, lastHash, FALSE))
    BY <1>3, <2>3, <2>5
  <2> QED BY <2>1, <2>2, <2>4, <2>5
<1>6. CASE Store!Open
  <2>1. /\ alive' /\ lines' = lines /\ writing' = writing /\ Store!Keep /\ Store!Parses(lines)
        /\ lastHash' = IF lines = << >> THEN << >> ELSE lines[Len(lines)].hash
        /\ ~alive /\ alive' \in BOOLEAN
    BY <1>6 DEF Store!Open, Store!ReadLastHash, Store!Last, Store!Genesis
  <2>2. /\ KeptChain(lines', kept') /\ kept' \in Seq(Nat) /\ Chained(lines', kept')
        /\ Store!Ends(lines) => KeptHash(lines', kept', Len(kept')) = lastHash'
    BY <2>1, KeepKeeps
  <2>3. writing = << >>
    BY <2>1 DEF StoreInv
  <2>4. lastHash' \in Seq(Events)
    <3>1. lines # << >> => lines[Len(lines)] \in Lines
      BY <1>1
    <3> QED BY <2>1, <3>1, << >> \in Seq(Events) DEF Lines
  <2>5. StoreTypes'
    BY <1>2, <2>1, <2>2, <2>4 DEF StoreTypes
  <2> QED BY <2>1, <2>2, <2>3, <2>5 DEF StoreInv
<1>7. CASE Store!Return
  <2>1. /\ writing # << >> /\ lastHash' = lastHash \o writing /\ writing' = << >>
        /\ Store!Keep /\ lines' = lines /\ alive' = alive
    BY <1>7 DEF Store!Return
  <2>2. /\ KeptChain(lines', kept') /\ kept' \in Seq(Nat)
        /\ Store!Parses(lines') => Chained(lines', kept')
        /\ Store!Parses(lines) /\ Store!Ends(lines) =>
             KeptHash(lines', kept', Len(kept')) =
               IF lines = << >> THEN << >> ELSE lines[Len(lines)].hash
    BY <2>1, KeepKeeps
  <2>3. PICK event \in Events : writing = <<event>>
    BY <1>2, <2>1 DEF StoreTypes
  <2>4. lastHash' = Append(lastHash, event) /\ lastHash' \in Seq(Events)
    BY <1>1, <2>1, <2>3
  <2>5. ASSUME Store!Parses(lines)
        PROVE  /\ lines # << >> /\ Store!Ends(lines) /\ alive
               /\ lines[Len(lines)].hash = Append(lastHash, event)
    <3>1. /\ alive /\ lines # << >> /\ Store!Ends(lines)
          /\ lines[Len(lines)].event = writing
          /\ kept # << >> => kept[Len(kept)] < Len(lines)
      BY <2>1, <2>5 DEF StoreInv
    <3>2. Len(lines) \in 1 .. Len(lines) /\ Chained(lines, kept)
      BY <1>1, <1>2, <2>5, <3>1
    <3>3. PICK k : Before(kept, k, Len(lines))
                   /\ lines[Len(lines)].previous = KeptHash(lines, kept, k)
      BY <3>2 DEF Chained
    <3>4. Before(kept, Len(kept), Len(lines))
      BY <1>1, <3>1 DEF Before
    <3>5. k = Len(kept)
      BY <1>1, <1>2, <3>3, <3>4, BeforeOnce
    <3>6. lines[Len(lines)].previous = lastHash
      BY <1>2, <2>5, <3>1, <3>3, <3>5
    <3>7. Head(lines[Len(lines)].event) = event
      BY <2>3, <3>1
    <3> QED BY <3>1, <3>2, <3>6, <3>7 DEF Chained, Whole
  <2>6. StoreTypes'
    BY <1>2, <2>1, <2>2, <2>4 DEF StoreTypes
  <2> QED BY <2>1, <2>2, <2>4, <2>5, <2>6 DEF StoreInv
<1>8. CASE Store!Raise \/ Store!Die
  <2>1. /\ lines' = lines /\ lastHash' = lastHash /\ kept' = kept /\ writing' = << >>
        /\ alive' = alive \/ alive' = FALSE
    BY <1>8 DEF Store!Raise, Store!Die
  <2>2. StoreTypes'
    BY <1>2, <2>1 DEF StoreTypes
  <2> QED BY <1>2, <2>1, <2>2 DEF StoreInv
<1> QED BY <1>4, <1>5, <1>6, <1>7, <1>8 DEF Store!Next

LEMMA StoreElsewhere == [Next]_all => StoreStep \/ UNCHANGED storeVars
BY DEF Next, StreamStep, StoreStep, BridgeStep, PolicyStep, PoolStep, MasterStep,
       QuotesStep, all

LEMMA StoreQuiet ==
  ASSUME StoreInv, UNCHANGED storeVars
  PROVE  StoreInv'
BY DEF StoreInv, StoreTypes, storeVars

LEMMA StoreNext == StoreInv /\ [Next]_all => StoreInv'
BY StoreElsewhere, StoreStepKeeps, StoreQuiet DEF StoreStep

-----------------------------------------------------------------------------
(* THE REFINEMENT *)

RecordsOf(file, ks) == [k \in 1 .. Len(ks) |-> Store!RecordOf(file[ks[k]], k)]

LEMMA RecordsAre ==
  ASSUME StoreInv
  PROVE  Store!Records = RecordsOf(lines, kept)
BY StoreFacts DEF Store!Records, RecordsOf

(* A line that is kept adds its record to the chain. *)
LEMMA KeptExtends ==
  ASSUME StoreInv, StoreInv', lines' = lines, kept' = Append(kept, Len(lines)),
         Len(lines) \in 1 .. Len(lines), Whole(lines[Len(lines)]),
         lines[Len(lines)].previous = KeptHash(lines, kept, Len(kept)),
         Len(lines[Len(lines)].hash) = Len(kept) + 1
  PROVE  Store!Chain!Next
<1> DEFINE line == lines[Len(lines)]
           event == Head(line.event)
           old == RecordsOf(lines, kept)
           record == Store!RecordOf(line, Len(kept) + 1)
<1>1. /\ lines \in Seq(Lines) /\ kept \in Seq(Nat) /\ Len(lines) \in Nat /\ Len(kept) \in Nat
      /\ DOMAIN kept = 1 .. Len(kept) /\ line \in Lines
  BY StoreFacts
<1>2. /\ event \in Events /\ line.previous \in Seq(Events)
      /\ line.hash = Append(line.previous, event)
  BY <1>1 DEF Lines, Whole
<1>3. Len(line.previous) = Len(kept)
  <2> HIDE DEF line, event
  <2>1. Len(Append(line.previous, event)) = Len(line.previous) + 1
        /\ Len(line.previous) \in Nat
    BY <1>2
  <2>2. Len(line.hash) = Len(kept) + 1
    BY DEF line
  <2> QED BY <1>1, <1>2, <2>1, <2>2
<1>4. record = [sequence |-> Len(kept) + 1, event |-> event,
                previous |-> Store!Numbered(line.previous),
                hash |-> Append(Store!Numbered(line.previous), <<Len(kept) + 1, event>>)]
  <2>1. Store!Numbered(line.hash) =
          Append(Store!Numbered(line.previous), <<Len(kept) + 1, event>>)
    <3> HIDE DEF line, event
    <3> QED BY <1>2, <1>3, NumberedAppend
  <2> QED BY <2>1 DEF Store!RecordOf
<1>5. /\ old = [k \in 1 .. Len(kept) |-> Store!RecordOf(lines[kept[k]], k)]
      /\ DOMAIN old = 1 .. Len(kept) /\ Len(old) = Len(kept)
      /\ \A k \in 1 .. Len(kept) : old[k] = Store!RecordOf(lines[kept[k]], k)
  BY <1>1 DEF RecordsOf
<1>6. /\ Len(kept') = Len(kept) + 1 /\ kept'[Len(kept) + 1] = Len(lines)
      /\ \A k \in 1 .. Len(kept) : kept'[k] = kept[k]
  BY <1>1, AppendIs
<1>7. /\ Store!Records = old /\ Store!Records' = RecordsOf(lines', kept')
  <2>1. Store!Records = old
    BY RecordsAre
  <2>2. DOMAIN kept' = 1 .. Len(kept')
    <3>1. kept' \in Seq(Nat)
      BY DEF StoreInv, StoreTypes
    <3> QED BY <3>1, SequenceIsFunction
  <2>3. Store!Records' = RecordsOf(lines', kept')
    BY <2>2 DEF Store!Records, RecordsOf
  <2> QED BY <2>1, <2>3
<1>8. RecordsOf(lines', kept') = Append(old, record)
  <2>1. Append(old, record) =
          [k \in 1 .. Len(kept) + 1 |-> IF k = Len(kept) + 1 THEN record ELSE old[k]]
    <3> DEFINE Rows == {old[k] : k \in 1 .. Len(kept)} \cup {record}
    <3>1. old \in [1 .. Len(kept) -> Rows]
      BY <1>5
    <3>2. record \in Rows
      OBVIOUS
    <3> HIDE DEF old, record, Rows
    <3>3. old \in Seq(Rows)
      <4>1. Len(kept) \in Nat
        BY <1>1
      <4> QED BY <3>1, <4>1
    <3>4. /\ Append(old, record) \in Seq(Rows)
          /\ Len(Append(old, record)) = Len(kept) + 1
          /\ \A k \in 1 .. Len(kept) : Append(old, record)[k] = old[k]
          /\ Append(old, record)[Len(kept) + 1] = record
      BY <1>5, <3>2, <3>3, AppendIs
    <3>5. Append(old, record) =
            [k \in 1 .. Len(kept) + 1 |-> Append(old, record)[k]]
      BY <3>4, SequenceIsFunction
    <3> QED BY <1>1, <3>4, <3>5
  <2>2. ASSUME NEW k \in 1 .. Len(kept) + 1
        PROVE  Store!RecordOf(lines'[kept'[k]], k) =
                 IF k = Len(kept) + 1 THEN record ELSE old[k]
    <3>1. CASE k = Len(kept) + 1
      BY <1>6, <3>1
    <3>2. CASE k # Len(kept) + 1
      <4>1. k \in 1 .. Len(kept)
        BY <1>1, <3>2
      <4> QED BY <1>5, <1>6, <3>2, <4>1
    <3> QED BY <3>1, <3>2
  <2> HIDE DEF old, record
  <2> QED BY <1>6, <2>1, <2>2 DEF RecordsOf
<1>9. Store!Chain!LastHash = Store!Numbered(line.previous)
  <2>1. CASE Len(kept) = 0
    <3>1. line.previous = << >>
      BY <2>1 DEF KeptHash
    <3>2. old = << >> /\ Store!Numbered(<< >>) = << >>
      BY <1>5, <2>1 DEF Store!Numbered
    <3> QED BY <1>7, <3>1, <3>2 DEF Store!Chain!LastHash, Store!Chain!Genesis
  <2>2. CASE Len(kept) # 0
    <3>1. Len(kept) \in 1 .. Len(kept)
      BY <1>1, <2>2
    <3>2. old # << >>
      <4> HIDE DEF old
      <4> QED BY <1>5, <3>1
    <3>3. line.previous = lines[kept[Len(kept)]].hash
      BY <2>2 DEF KeptHash
    <3>4. old[Len(old)].hash = Store!Numbered(lines[kept[Len(kept)]].hash)
      BY <1>5, <3>1 DEF Store!RecordOf
    <3> QED BY <1>7, <3>2, <3>3, <3>4 DEF Store!Chain!LastHash
  <2> QED BY <2>1, <2>2
<1>10. record = Store!Chain!Record(Len(old) + 1, event, Store!Chain!LastHash)
  <2> HIDE DEF old, record, line, event
  <2> QED BY <1>4, <1>5, <1>9 DEF Store!Chain!Record, Store!Chain!Digest
<1>11. Store!Chain!Extend(event)
  <2> HIDE DEF old, record, line, event
  <2> QED BY <1>7, <1>8, <1>10 DEF Store!Chain!Extend
<1> QED BY <1>2, <1>11 DEF Store!Chain!Next

LEMMA StoreStepRefines ==
  StoreInv /\ Store!Next => Store!Chain!Next \/ UNCHANGED Store!Records
<1> SUFFICES ASSUME StoreInv, Store!Next
             PROVE  Store!Chain!Next \/ UNCHANGED Store!Records
  OBVIOUS
<1>1. StoreInv'
  BY StoreStepKeeps
<1>2. /\ Store!Records = RecordsOf(lines, kept) /\ Store!Records' = RecordsOf(lines', kept')
      /\ Len(kept) \in Nat
  <2>1. DOMAIN kept' = 1 .. Len(kept')
    <3>1. kept' \in Seq(Nat)
      BY <1>1 DEF StoreInv, StoreTypes
    <3> QED BY <3>1, SequenceIsFunction
  <2> QED BY <2>1, RecordsAre, StoreFacts DEF Store!Records, RecordsOf
<1>3. ASSUME lines' = lines, Store!Keep
      PROVE  Store!Chain!Next \/ UNCHANGED Store!Records
  BY <1>1, <1>2, <1>3, KeepAdds, KeptExtends
<1>4. ASSUME NEW line \in Lines, lines' = Store!Put(lines, line), kept' = kept
      PROVE  UNCHANGED Store!Records
  <2>1. Added(lines, line, lines')
    BY <1>4, StoreFacts, PutFile
  <2>2. \A k \in 1 .. Len(kept) : lines'[kept[k]] = lines[kept[k]]
    BY <2>1 DEF Added, StoreInv, KeptChain
  <2> QED BY <1>2, <1>4, <2>2 DEF RecordsOf
<1>5. ASSUME NEW event \in Events, NEW ended \in BOOLEAN
      PROVE  Store!LineOf(event, lastHash, ended) \in Lines /\ Store!TornLine(ended) \in Lines
  BY StoreFacts, LineTypes
<1>6. ASSUME NEW event \in Events, Store!Write(event)
      PROVE  UNCHANGED Store!Records
  BY <1>4, <1>5, <1>6 DEF Store!Write
<1>7. ASSUME NEW event \in Events, Store!WriteShort(event)
      PROVE  UNCHANGED Store!Records
  <2>1. CASE lines' = lines
    BY <1>2, <1>7, <2>1 DEF Store!WriteShort
  <2> QED BY <1>4, <1>5, <1>7, <2>1 DEF Store!WriteShort
<1>8. CASE Store!Open \/ Store!Return
  BY <1>3, <1>8 DEF Store!Open, Store!Return
<1>9. CASE Store!Raise \/ Store!Die
  BY <1>2, <1>9 DEF Store!Raise, Store!Die
<1> QED BY <1>6, <1>7, <1>8, <1>9 DEF Store!Next

LEMMA StoreRefines == StoreInv /\ [Next]_all => [Store!Chain!Next]_(Store!Records)
<1> SUFFICES ASSUME StoreInv, [Next]_all
             PROVE  Store!Chain!Next \/ UNCHANGED Store!Records
  OBVIOUS
<1>1. CASE Store!Next
  BY <1>1, StoreStepRefines
<1>2. CASE UNCHANGED storeVars
  BY <1>2 DEF storeVars, Store!Records
<1> QED BY <1>1, <1>2, StoreElsewhere DEF StoreStep

LEMMA NoRecordsYet == Init => Store!Chain!Init
<1> SUFFICES ASSUME kept = << >> PROVE Store!Records = << >>
  BY DEF Init, Store!Init, Store!Chain!Init
<1> QED BY DEF Store!Records

(* Where a line is kept the next one names it, and where it is not the two *)
(* name the same one.                                                      *)
LEMMA Tells == StoreInv => Store!VerifyTells
<1> SUFFICES ASSUME StoreInv, Store!Parses(lines)
             PROVE  Store!VerifyChain <=>
                      \A i \in DOMAIN lines \ {Len(lines)} : i \in Store!ToSet(kept)
  BY DEF Store!VerifyTells
<1>1. /\ lines \in Seq(Lines) /\ kept \in Seq(Nat) /\ Len(lines) \in Nat /\ Len(kept) \in Nat
      /\ DOMAIN lines = 1 .. Len(lines) /\ DOMAIN kept = 1 .. Len(kept)
  BY StoreFacts
<1>0. /\ Len(lines) \in Nat /\ Len(kept) \in Nat
      /\ \A k \in 1 .. Len(kept) : kept[k] \in Nat
  BY <1>1
<1>2. Chained(lines, kept) /\ KeptChain(lines, kept)
  BY DEF StoreInv
<1>3. \A i : i \in Store!ToSet(kept) <=> \E k \in 1 .. Len(kept) : kept[k] = i
  BY <1>1 DEF Store!ToSet
<1>4. ASSUME NEW i \in 1 .. Len(lines), i # Len(lines)
      PROVE  lines[i + 1].previous = lines[i].hash <=> i \in Store!ToSet(kept)
  <2>1. i + 1 \in 1 .. Len(lines) /\ i \in Nat /\ i + 1 \in Nat
    BY <1>0, <1>4
  <2>2. PICK n : Before(kept, n, i + 1) /\ lines[i + 1].previous = KeptHash(lines, kept, n)
    BY <1>2, <2>1 DEF Chained
  <2>3. PICK m : Before(kept, m, i) /\ lines[i].previous = KeptHash(lines, kept, m)
    BY <1>2 DEF Chained
  <2>4. ASSUME NEW k \in 1 .. Len(kept), kept[k] = i
        PROVE  lines[i + 1].previous = lines[i].hash
    <3>1. Before(kept, k, i + 1)
      <4>1. k # Len(kept) => i + 1 <= kept[k + 1]
        <5>1. SUFFICES ASSUME k # Len(kept) PROVE i + 1 <= kept[k + 1]
          OBVIOUS
        <5>2. k + 1 \in 1 .. Len(kept) /\ k < k + 1
          BY <1>0, <5>1
        <5>3. kept[k] < kept[k + 1] /\ kept[k + 1] \in Nat
          BY <1>0, <1>2, <5>2 DEF KeptChain
        <5> QED BY <2>1, <2>4, <5>3
      <4> QED BY <1>0, <2>1, <2>4, <4>1 DEF Before
    <3>2. n = k
      BY <1>1, <1>2, <2>1, <2>2, <3>1, BeforeOnce
    <3> QED BY <1>1, <2>2, <2>4, <3>2 DEF KeptHash
  <2>5. ASSUME i \notin Store!ToSet(kept)
        PROVE  lines[i + 1].previous # lines[i].hash
    <3>1. m \in 0 .. Len(kept)
      BY <2>3 DEF Before
    <3>2. Before(kept, m, i + 1)
      <4>1. m # 0 => kept[m] < i + 1
        <5>1. m # 0 => m \in 1 .. Len(kept)
          BY <1>0, <3>1
        <5>2. m # 0 => kept[m] \in Nat /\ kept[m] < i
          BY <1>0, <2>3, <5>1 DEF Before
        <5> QED BY <2>1, <5>2
      <4>2. m # Len(kept) => i + 1 <= kept[m + 1]
        <5>1. SUFFICES ASSUME m # Len(kept) PROVE i + 1 <= kept[m + 1]
          OBVIOUS
        <5>2. m + 1 \in 1 .. Len(kept)
          BY <1>0, <3>1, <5>1
        <5>3. i <= kept[m + 1] /\ kept[m + 1] # i /\ kept[m + 1] \in Nat
          BY <1>0, <1>3, <2>3, <2>5, <5>1, <5>2 DEF Before
        <5> QED BY <2>1, <5>3
      <4> QED BY <3>1, <4>1, <4>2 DEF Before
    <3>3. n = m
      BY <1>1, <1>2, <2>1, <2>2, <3>2, BeforeOnce
    <3>4. lines[i + 1].previous = lines[i].previous
      BY <2>2, <2>3, <3>3
    <3>5. lines[i].hash # lines[i].previous
      <4> DEFINE line == lines[i]
      <4>1. line \in Lines /\ Whole(line)
        BY <1>1, <1>2 DEF Chained
      <4>2. /\ line.previous \in Seq(Events) /\ Head(line.event) \in Events
            /\ line.hash = Append(line.previous, Head(line.event))
        BY <4>1 DEF Lines, Whole
      <4> HIDE DEF line
      <4>3. Len(line.hash) = Len(line.previous) + 1 /\ Len(line.previous) \in Nat
        BY <4>2
      <4>4. line.hash # line.previous
        BY <4>3
      <4> QED BY <4>4 DEF line
    <3> QED BY <3>4, <3>5
  <2> QED BY <1>3, <2>4, <2>5
<1>5. ASSUME 1 \in 1 .. Len(lines) PROVE lines[1].previous = << >>
  <2>1. PICK k : Before(kept, k, 1) /\ lines[1].previous = KeptHash(lines, kept, k)
    BY <1>2, <1>5 DEF Chained
  <2>2. k \in 0 .. Len(kept) /\ (k # 0 => kept[k] < 1)
    BY <2>1 DEF Before
  <2>3. k = 0
    <3>1. k # 0 => k \in 1 .. Len(kept)
      BY <1>1, <2>2
    <3>2. k # 0 => kept[k] \in 1 .. Len(lines)
      BY <1>2, <3>1 DEF KeptChain
    <3> QED BY <1>1, <2>2, <3>2
  <2> QED BY <2>1, <2>3 DEF KeptHash
<1>6. ASSUME Store!VerifyChain, NEW i \in 1 .. Len(lines), i # Len(lines)
      PROVE  i \in Store!ToSet(kept)
  <2>1. i + 1 \in 1 .. Len(lines) /\ i + 1 # 1 /\ (i + 1) - 1 = i
    BY <1>0, <1>6
  <2>2. lines[i + 1].previous = lines[i].hash
    BY <1>1, <1>6, <2>1 DEF Store!VerifyChain
  <2> QED BY <1>4, <1>6, <2>2
<1>7. ASSUME \A i \in DOMAIN lines \ {Len(lines)} : i \in Store!ToSet(kept),
             NEW i \in 1 .. Len(lines)
      PROVE  lines[i].previous = IF i = 1 THEN << >> ELSE lines[i - 1].hash
  <2>1. CASE i = 1
    BY <1>5, <2>1
  <2>2. CASE i # 1
    <3>1. i - 1 \in 1 .. Len(lines) /\ i - 1 # Len(lines) /\ (i - 1) + 1 = i
      BY <1>1, <2>2
    <3>2. i - 1 \in Store!ToSet(kept)
      BY <1>1, <1>7, <3>1
    <3> QED BY <1>4, <2>2, <3>1, <3>2
  <2> QED BY <2>1, <2>2
<1>8. (\A i \in DOMAIN lines \ {Len(lines)} : i \in Store!ToSet(kept)) => Store!VerifyChain
  BY <1>1, <1>7 DEF Store!VerifyChain, Store!Genesis
<1> QED BY <1>1, <1>6, <1>8

(* The inner action of FeedbackStays. *)
FeedbackKept ==
  \A event \in Events :
    LET given == Store!Feedback(event.available) IN
    /\ \A i \in given :
         lines'[i] = lines[i]
           \/ (i = Len(lines) /\ ~lines[i].ended /\ ~Store!Parses(lines'))
    /\ Store!Parses(lines') =>
         given = {i \in Store!Feedback(event.available)' : i <= Len(lines)}

LEMMA FeedbackStep == StoreInv /\ [Next]_all => [FeedbackKept]_(Store!vars)
<1> SUFFICES ASSUME StoreInv, Store!Next,
                    NEW event \in Events
             PROVE  /\ \A i \in Store!Feedback(event.available) :
                         lines'[i] = lines[i]
                           \/ (i = Len(lines) /\ ~lines[i].ended /\ ~Store!Parses(lines'))
                    /\ Store!Parses(lines') =>
                         Store!Feedback(event.available) =
                           {i \in Store!Feedback(event.available)' : i <= Len(lines)}
  BY StoreElsewhere DEF FeedbackKept, StoreStep, Store!vars, storeVars
<1> DEFINE Given(line) ==
             \E e \in Store!ToSet(line.event) : e.realized /\ e.available <= event.available
<1>1. /\ lines \in Seq(Lines) /\ Len(lines) \in Nat /\ DOMAIN lines = 1 .. Len(lines)
      /\ lastHash \in Seq(Events)
  BY StoreFacts
<1>2. lines' = lines \/ \E line \in Lines : lines' = Store!Put(lines, line)
  <2>1. ASSUME NEW e \in Events, NEW ended \in BOOLEAN
        PROVE  Store!LineOf(e, lastHash, ended) \in Lines /\ Store!TornLine(ended) \in Lines
    BY <1>1, LineTypes
  <2> QED BY <2>1 DEF Store!Next, Store!Write, Store!WriteShort, Store!Open,
                      Store!Return, Store!Raise, Store!Die
<1>3. /\ lines' \in Seq(Lines) /\ Len(lines') \in Nat /\ DOMAIN lines' = 1 .. Len(lines')
      /\ Len(lines) <= Len(lines')
      /\ \A i \in 1 .. Len(lines) :
           lines'[i] = lines[i]
             \/ (i = Len(lines) /\ ~lines[i].ended /\ ~Store!Parses(lines'))
      /\ Store!Parses(lines') => \A i \in 1 .. Len(lines) : lines'[i] = lines[i]
  <2>1. CASE lines' = lines
    BY <1>1, <2>1
  <2>2. ASSUME NEW line \in Lines, lines' = Store!Put(lines, line)
        PROVE  /\ lines' \in Seq(Lines) /\ Len(lines') \in Nat
               /\ DOMAIN lines' = 1 .. Len(lines') /\ Len(lines) <= Len(lines')
               /\ \A i \in 1 .. Len(lines) :
                    lines'[i] = lines[i]
                      \/ (i = Len(lines) /\ ~lines[i].ended /\ ~Store!Parses(lines'))
               /\ Store!Parses(lines') => \A i \in 1 .. Len(lines) : lines'[i] = lines[i]
    <3>1. Added(lines, line, lines')
      BY <1>1, <2>2, PutFile
    <3>2. lines' \in Seq(Lines) => DOMAIN lines' = 1 .. Len(lines')
      BY SequenceIsFunction
    <3> QED BY <3>1, <3>2 DEF Added
  <2> QED BY <1>2, <2>1, <2>2
<1>4. /\ Store!Feedback(event.available) = {i \in DOMAIN lines : Given(lines[i])}
      /\ Store!Feedback(event.available)' = {i \in DOMAIN lines' : Given(lines'[i])}
  BY DEF Store!Feedback
<1> HIDE DEF Given
<1>5. ASSUME Store!Parses(lines')
      PROVE  {i \in DOMAIN lines : Given(lines[i])} =
               {i \in {j \in DOMAIN lines' : Given(lines'[j])} : i <= Len(lines)}
  <2>1. \A i : i \in DOMAIN lines <=> i \in DOMAIN lines' /\ i <= Len(lines)
    <3>1. /\ Len(lines) \in Nat /\ DOMAIN lines = 1 .. Len(lines)
          /\ Len(lines') \in Nat /\ DOMAIN lines' = 1 .. Len(lines')
          /\ Len(lines) <= Len(lines')
      BY <1>1, <1>3
    <3> QED BY <3>1
  <2>2. \A i \in DOMAIN lines : lines'[i] = lines[i]
    BY <1>1, <1>3, <1>5
  <2> QED BY <2>1, <2>2
<1> QED BY <1>1, <1>3, <1>4, <1>5

(* Whatever raises or dies before, within or after a write, and however    *)
(* many objects are made on one file after another: the records whose      *)
(* append() returned form a hash chain that only grows at its end;         *)
(* verify_chain refuses a file that parses exactly when a record follows   *)
(* one whose append() raised with its line written; and what the feedback  *)
(* of a cutoff has given it gives again, unless the file parses no more.   *)
THEOREM StoreRefinement == Spec => StoreIsHashChain
<1>1. Spec => []StoreInv
  BY StoreInit, StoreNext, PTL DEF Spec
<1>2. Spec => [][Store!VerifyTells']_(Store!vars)
  BY <1>1, Tells, PTL
<1>3. Spec => Store!IsHashChain
  BY <1>1, NoRecordsYet, StoreRefines, PTL DEF Spec, Store!IsHashChain, Store!Chain!Spec
<1>4. Spec => Store!FeedbackStays
  <2>1. Spec => [][FeedbackKept]_(Store!vars)
    BY <1>1, FeedbackStep, PTL DEF Spec
  <2> QED BY <2>1 DEF Store!FeedbackStays, FeedbackKept
<1> QED BY <1>2, <1>3, <1>4 DEF StoreIsHashChain
=============================================================================
