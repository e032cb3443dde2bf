--------------------------- MODULE EventBusProofs ---------------------------
(***************************************************************************)
(* Theorems about EventBus, for any streams, publishers, consumers and     *)
(* bounds.                                                                 *)
(***************************************************************************)
EXTENDS EventBus, FiniteSetTheorems, TLAPS

-----------------------------------------------------------------------------
(* COUNTING AND THE STORED EVENTS *)

(* How the count of a subset changes with one element. *)
LEMMA CountIn ==
  ASSUME NEW S, IsFiniteSet(S), NEW T, T \subseteq S, NEW x \in S, x \notin T
  PROVE  /\ Cardinality(T) \in Nat
         /\ Cardinality(T \cup {x}) = Cardinality(T) + 1
BY FS_Subset, FS_CardinalityType, FS_AddElement

(* Nothing else is stored when the oldest event leaves the queue. *)
LEMMA StoredMoves ==
  ASSUME NEW d \in Seq(Event), NEW q \in Seq(Event), q # << >>
  PROVE  Append(d, Head(q)) \o Tail(q) = d \o q
<1> DEFINE l == Append(d, Head(q)) \o Tail(q)
           r == d \o q
<1>1. Append(d, Head(q)) \in Seq(Event) /\ Tail(q) \in Seq(Event)
  OBVIOUS
<1>2. l \in Seq(Event) /\ r \in Seq(Event) /\ Len(l) = Len(r)
  BY <1>1
<1>3. \A i \in 1 .. Len(r) : l[i] = r[i]
  BY <1>1
<1> HIDE DEF l, r
<1>4. l = r
  BY <1>2, <1>3
<1> QED BY <1>4 DEF l, r

(* A put event is the last of the stored ones. *)
LEMMA StoredGrows ==
  ASSUME NEW d \in Seq(Event), NEW q \in Seq(Event), NEW e \in Event
  PROVE  /\ d \o Append(q, e) \in Seq(Event)
         /\ Len(d \o Append(q, e)) = Len(d \o q) + 1
         /\ \A i \in 1 .. Len(d \o q) : (d \o Append(q, e))[i] = (d \o q)[i]
         /\ (d \o Append(q, e))[Len(d \o q) + 1] = e
OBVIOUS

-----------------------------------------------------------------------------
(* THE ACCOUNTING INVARIANT *)

Putting == {p \in Publishers : pc[p] = "putting"}
Busy == {c \in Consumers : handling[c] # NoEvent}

(* A publisher that is not idle has an event at hand, one of its streams.  *)
AtHand ==
  \A p \in Publishers :
    pc[p] # "idle" => event[p] \in Event /\ event[p].stream \in Publishes[p]

IInv == TypeOK /\ AtHand /\ EveryCallAccounted

LEMMA InitIInv == Init => IInv
<1> SUFFICES ASSUME Init PROVE IInv
  OBVIOUS
<1>1. TypeOK
  BY BusAssumption DEF Init, TypeOK
<1>2. Putting = {} /\ Busy = {}
  BY DEF Init, Putting, Busy
<1>3. calls = rejected + dropped + Len(Stored) + Cardinality(Putting)
      /\ unfinished = Len(queue) + Cardinality(Busy)
  BY <1>2, FS_EmptySet DEF Init, Stored
<1> QED BY <1>1, <1>3 DEF IInv, AtHand, EveryCallAccounted, Putting, Busy, Init

LEMMA StoredIs ==
  ASSUME IInv
  PROVE  Stored \in Seq(Event) /\ Len(Stored) = Len(delivered) + Len(queue)
BY DEF IInv, TypeOK, Stored

LEMMA CountsAreNat ==
  ASSUME IInv
  PROVE  /\ Cardinality(Putting) \in Nat /\ Cardinality(Busy) \in Nat
         /\ calls \in Nat /\ rejected \in Nat /\ dropped \in Nat /\ unfinished \in Nat
         /\ Len(queue) \in Nat /\ Len(Stored) \in Nat
         /\ calls = rejected + dropped + Len(Stored) + Cardinality(Putting)
         /\ unfinished = Len(queue) + Cardinality(Busy)
<1>1. Cardinality(Putting) \in Nat /\ Cardinality(Busy) \in Nat
  BY BusAssumption, FS_Subset, FS_CardinalityType DEF Putting, Busy
<1>2. /\ calls \in Nat /\ rejected \in Nat /\ dropped \in Nat /\ unfinished \in Nat
      /\ Len(queue) \in Nat /\ Len(Stored) \in Nat
  BY StoredIs, BusAssumption DEF IInv, TypeOK
<1>3. /\ calls = rejected + dropped + Len(Stored) + Cardinality(Putting)
      /\ unfinished = Len(queue) + Cardinality(Busy)
  BY DEF IInv, EveryCallAccounted, Putting, Busy
<1> QED BY <1>1, <1>2, <1>3

(* ... and in the next state, where nothing but the counts is of interest. *)
LEMMA AccountsHold ==
  ASSUME calls' = rejected' + dropped' + Len(Stored') + Cardinality(Putting'),
         unfinished' = Len(queue') + Cardinality(Busy')
  PROVE  EveryCallAccounted'
BY DEF EveryCallAccounted, Putting, Busy

(* A publisher starts waiting, or stops. *)
LEMMA PuttingChanges ==
  ASSUME IInv, NEW p \in Publishers, NEW place, pc' = [pc EXCEPT ![p] = place]
  PROVE  Cardinality(Putting') =
           IF pc[p] = "putting"
             THEN IF place = "putting" THEN Cardinality(Putting)
                                       ELSE Cardinality(Putting) - 1
             ELSE IF place = "putting" THEN Cardinality(Putting) + 1
                                       ELSE Cardinality(Putting)
<1>1. IsFiniteSet(Putting) /\ Cardinality(Putting) \in Nat
  BY BusAssumption, FS_Subset, FS_CardinalityType DEF Putting
<1>2. Putting' = IF place = "putting" THEN Putting \cup {p} ELSE Putting \ {p}
  BY DEF Putting, IInv, TypeOK
<1>3. p \in Putting <=> pc[p] = "putting"
  BY DEF Putting
<1> QED BY <1>1, <1>2, <1>3, FS_AddElement, FS_RemoveElement

(* A consumer's handler starts, or ends. *)
LEMMA BusyChanges ==
  ASSUME IInv, NEW c \in Consumers, NEW e, handling' = [handling EXCEPT ![c] = e]
  PROVE  Cardinality(Busy') =
           IF handling[c] # NoEvent
             THEN IF e # NoEvent THEN Cardinality(Busy) ELSE Cardinality(Busy) - 1
             ELSE IF e # NoEvent THEN Cardinality(Busy) + 1 ELSE Cardinality(Busy)
<1>1. IsFiniteSet(Busy) /\ Cardinality(Busy) \in Nat
  BY BusAssumption, FS_Subset, FS_CardinalityType DEF Busy
<1>2. Busy' = IF e # NoEvent THEN Busy \cup {c} ELSE Busy \ {c}
  BY DEF Busy, IInv, TypeOK
<1>3. c \in Busy <=> handling[c] # NoEvent
  BY DEF Busy
<1> QED BY <1>1, <1>2, <1>3, FS_AddElement, FS_RemoveElement

(* The guards learn of an event. *)
LEMMA RecordType ==
  ASSUME IInv, NEW e \in Event, Record(e)
  PROVE  /\ seen' \subseteq Streams \X (0 .. MaxSequence)
         /\ last' \in [Streams -> -1 .. MaxSequence]
BY BusAssumption DEF IInv, TypeOK, Record, Key, Event

(* The queue takes an event it has room for. *)
LEMMA EnqueueType ==
  ASSUME IInv, NEW e \in Event, Enqueue(e), ~Full, UNCHANGED delivered
  PROVE  /\ queue' \in Seq(Event) /\ Len(queue') <= MaxSize
         /\ Len(queue') = Len(queue) + 1
         /\ unfinished' \in Nat
         /\ Len(Stored') = Len(Stored) + 1
BY BusAssumption DEF IInv, TypeOK, Enqueue, Full, Stored

LEMMA NowaitKeeps ==
  ASSUME IInv, NEW p \in Publishers, NEW e \in Event, PublishNowait(p, e)
  PROVE  IInv'
<1>1. /\ calls' = calls + 1 /\ calls' \in 0 .. MaxCalls
      /\ UNCHANGED <<pc, event, handling, failed, delivered>>
  BY BusAssumption DEF PublishNowait, Call, consumeVars, IInv, TypeOK
<1>2. AtHand' /\ Putting' = Putting /\ Busy' = Busy
  BY <1>1 DEF IInv, AtHand, Putting, Busy
<1>3. CASE Record(e) /\ Enqueue(e) /\ ~Full /\ UNCHANGED <<dropped, rejected>>
  <2>1. TypeOK'
    BY <1>1, <1>3, RecordType, EnqueueType DEF IInv, TypeOK
  <2>2. /\ unfinished' = unfinished + 1 /\ Len(queue') = Len(queue) + 1
        /\ Len(Stored') = Len(Stored) + 1
    BY <1>1, <1>3, EnqueueType DEF Enqueue
  <2>3. EveryCallAccounted'
    <3>1. /\ calls' = calls + 1 /\ rejected' = rejected /\ dropped' = dropped
          /\ Cardinality(Putting') = Cardinality(Putting)
          /\ Cardinality(Busy') = Cardinality(Busy)
      BY <1>1, <1>2, <1>3
    <3>2. /\ rejected \in Nat /\ dropped \in Nat
          /\ Len(Stored) \in Nat /\ Cardinality(Putting) \in Nat
          /\ calls = rejected + dropped + Len(Stored) + Cardinality(Putting)
      BY CountsAreNat
    <3>3. calls' = rejected' + dropped' + Len(Stored') + Cardinality(Putting')
      BY <2>2, <3>1, <3>2
    <3>4. unfinished' = Len(queue') + Cardinality(Busy')
      BY <2>2, <3>1, CountsAreNat
    <3> QED BY <3>3, <3>4, AccountsHold
  <2> QED BY <1>2, <2>1, <2>3 DEF IInv
<1>4. CASE /\ UNCHANGED <<queue, unfinished, seen, last>>
           /\ \/ rejected' = rejected + 1 /\ UNCHANGED dropped
              \/ dropped' = dropped + 1 /\ UNCHANGED rejected
  <2>1. TypeOK'
    BY <1>1, <1>4 DEF IInv, TypeOK
  <2>2. Stored' = Stored
    BY <1>1, <1>4 DEF Stored
  <2>3. EveryCallAccounted'
    BY <1>1, <1>2, <1>4, <2>2, CountsAreNat, AccountsHold
  <2> QED BY <1>2, <2>1, <2>3 DEF IInv
<1> QED BY <1>3, <1>4 DEF PublishNowait

LEMMA PublishBeginKeeps ==
  ASSUME IInv, NEW p \in Publishers, NEW e \in Event, PublishBegin(p, e)
  PROVE  IInv'
<1>1. /\ calls' = calls + 1 /\ calls' \in 0 .. MaxCalls
      /\ pc[p] = "idle" /\ e.stream \in Publishes[p]
      /\ UNCHANGED <<queue, unfinished, seen, last, dropped, handling, failed, delivered>>
      /\ Stored' = Stored /\ Busy' = Busy
  BY BusAssumption DEF PublishBegin, Call, consumeVars, IInv, TypeOK, Stored, Busy
<1>2. CASE rejected' = rejected + 1 /\ UNCHANGED <<pc, event>>
  <2>1. TypeOK' /\ AtHand' /\ Putting' = Putting
    BY <1>1, <1>2 DEF IInv, TypeOK, AtHand, Putting
  <2>2. EveryCallAccounted'
    <3>1. /\ calls' = calls + 1 /\ rejected' = rejected + 1 /\ dropped' = dropped
          /\ Len(Stored') = Len(Stored) /\ Cardinality(Putting') = Cardinality(Putting)
      BY <1>1, <1>2, <2>1
    <3>2. calls' = rejected' + dropped' + Len(Stored') + Cardinality(Putting')
      BY <3>1, CountsAreNat, SMTT(30)
    <3>3. unfinished' = Len(queue') + Cardinality(Busy')
      BY <1>1, CountsAreNat
    <3> QED BY <3>2, <3>3, AccountsHold
  <2> QED BY <2>1, <2>2 DEF IInv
<1>3. CASE /\ pc' = [pc EXCEPT ![p] = "putting"]
           /\ event' = [event EXCEPT ![p] = e]
           /\ UNCHANGED rejected
  <2>1. TypeOK' /\ AtHand'
    BY <1>1, <1>3 DEF IInv, TypeOK, AtHand
  <2>2. Cardinality(Putting') = Cardinality(Putting) + 1
    BY <1>1, <1>3, PuttingChanges
  <2>3. EveryCallAccounted'
    BY <1>1, <1>3, <2>2, CountsAreNat, AccountsHold
  <2> QED BY <2>1, <2>3 DEF IInv
<1> QED BY <1>2, <1>3 DEF PublishBegin

LEMMA PutKeeps ==
  ASSUME IInv, NEW p \in Publishers, Put(p)
  PROVE  IInv'
<1>1. /\ pc[p] = "putting" /\ event[p] \in Event
      /\ pc' = [pc EXCEPT ![p] = "stored"]
      /\ Enqueue(event[p]) /\ ~Full
      /\ UNCHANGED <<seen, last, dropped, rejected, event, calls, handling, failed,
                     delivered>>
      /\ Busy' = Busy
  BY DEF Put, consumeVars, IInv, AtHand, Busy
<1>2. TypeOK' /\ AtHand'
  BY <1>1, EnqueueType DEF IInv, TypeOK, AtHand
<1>3. /\ Cardinality(Putting') = Cardinality(Putting) - 1
      /\ unfinished' = unfinished + 1 /\ Len(queue') = Len(queue) + 1
      /\ Len(Stored') = Len(Stored) + 1
  BY <1>1, PuttingChanges, EnqueueType DEF Enqueue
<1>4. EveryCallAccounted'
  <2>1. calls' = calls /\ rejected' = rejected /\ dropped' = dropped
    BY <1>1
  <2>2. Len(Stored') = Len(Stored) + 1 /\ Cardinality(Putting') = Cardinality(Putting) - 1
    BY <1>3
  <2>3. /\ rejected \in Nat /\ dropped \in Nat
        /\ Len(Stored) \in Nat /\ Cardinality(Putting) \in Nat
        /\ calls = rejected + dropped + Len(Stored) + Cardinality(Putting)
    BY CountsAreNat
  <2>4. calls' = rejected' + dropped' + Len(Stored') + Cardinality(Putting')
    BY <2>1, <2>2, <2>3
  <2>5. unfinished' = Len(queue') + Cardinality(Busy')
    BY <1>1, <1>3, CountsAreNat
  <2> QED BY <2>4, <2>5, AccountsHold
<1> QED BY <1>2, <1>4 DEF IInv

LEMMA PutTimeoutKeeps ==
  ASSUME IInv, NEW p \in Publishers, PutTimeout(p)
  PROVE  IInv'
<1>1. /\ pc[p] = "putting" /\ dropped' = dropped + 1
      /\ pc' = [pc EXCEPT ![p] = "idle"]
      /\ event' = [event EXCEPT ![p] = NoEvent]
      /\ UNCHANGED <<queue, unfinished, seen, last, rejected, calls, handling, failed,
                     delivered>>
      /\ Busy' = Busy /\ Stored' = Stored
  BY DEF PutTimeout, consumeVars, Busy, Stored
<1>2. TypeOK' /\ AtHand'
  BY <1>1 DEF IInv, TypeOK, AtHand
<1>3. Cardinality(Putting') = Cardinality(Putting) - 1
  BY <1>1, PuttingChanges
<1>4. EveryCallAccounted'
  BY <1>1, <1>3, CountsAreNat, AccountsHold
<1> QED BY <1>2, <1>4 DEF IInv

LEMMA PublishEndKeeps ==
  ASSUME IInv, NEW p \in Publishers, PublishEnd(p)
  PROVE  IInv'
<1>1. /\ pc[p] = "stored" /\ event[p] \in Event /\ Record(event[p])
      /\ pc' = [pc EXCEPT ![p] = "idle"]
      /\ event' = [event EXCEPT ![p] = NoEvent]
      /\ UNCHANGED <<queue, unfinished, dropped, rejected, calls, handling, failed,
                     delivered>>
      /\ Busy' = Busy /\ Stored' = Stored
  BY DEF PublishEnd, consumeVars, Busy, Stored, IInv, AtHand
<1>2. TypeOK' /\ AtHand'
  BY <1>1, RecordType DEF IInv, TypeOK, AtHand
<1>3. Cardinality(Putting') = Cardinality(Putting)
  <2>1. Putting' = Putting
    BY <1>1 DEF Putting, IInv, TypeOK
  <2> QED BY <2>1
<1>4. EveryCallAccounted'
  BY <1>1, <1>3, CountsAreNat, AccountsHold
<1> QED BY <1>2, <1>4 DEF IInv

LEMMA GetKeeps ==
  ASSUME IInv, NEW c \in Consumers, Get(c)
  PROVE  IInv' /\ Stored' = Stored
<1>1. /\ queue # << >> /\ handling[c] = NoEvent
      /\ Head(queue) \in Event /\ Head(queue) # NoEvent
      /\ handling' = [handling EXCEPT ![c] = Head(queue)]
      /\ delivered' = Append(delivered, Head(queue))
      /\ queue' = Tail(queue)
      /\ UNCHANGED <<unfinished, failed, seen, last, dropped, rejected, pc, event, calls>>
  BY BusAssumption DEF Get, publishVars, IInv, TypeOK
<1>2. /\ queue' \in Seq(Event) /\ Len(queue') = Len(queue) - 1
      /\ delivered' \in Seq(Event)
  BY <1>1 DEF IInv, TypeOK
<1>3. Stored' = Stored
  BY <1>1, StoredMoves DEF IInv, TypeOK, Stored
<1>4. TypeOK' /\ AtHand' /\ Putting' = Putting
  <2>1. AtHand' /\ Putting' = Putting
    BY <1>1 DEF IInv, AtHand, Putting
  <2>2. Len(queue') <= MaxSize
    BY <1>1, <1>2, BusAssumption DEF IInv, TypeOK
  <2>3. handling' \in [Consumers -> Event \cup {NoEvent}]
    BY <1>1 DEF IInv, TypeOK
  <2> QED BY <1>1, <1>2, <2>1, <2>2, <2>3 DEF IInv, TypeOK
<1>5. Cardinality(Busy') = Cardinality(Busy) + 1
  BY <1>1, BusyChanges
<1>6. EveryCallAccounted'
  BY <1>1, <1>2, <1>3, <1>4, <1>5, CountsAreNat, AccountsHold
<1> QED BY <1>3, <1>4, <1>6 DEF IInv

LEMMA HandlerKeeps ==
  ASSUME IInv, NEW c \in Consumers, HandlerReturns(c) \/ HandlerRaises(c)
  PROVE  IInv'
<1>1. /\ handling[c] # NoEvent
      /\ handling' = [handling EXCEPT ![c] = NoEvent]
      /\ unfinished' = unfinished - 1
      /\ failed' \subseteq Consumers
      /\ UNCHANGED <<queue, delivered, seen, last, dropped, rejected, pc, event, calls>>
      /\ Stored' = Stored /\ Putting' = Putting
  BY DEF HandlerReturns, HandlerRaises, HandlerEnds, publishVars, IInv, TypeOK, Stored,
         Putting
<1>2. Cardinality(Busy') = Cardinality(Busy) - 1 /\ Cardinality(Busy') \in Nat
  <2>1. Busy' \subseteq Consumers
    BY DEF Busy
  <2> QED BY <1>1, <2>1, BusyChanges, BusAssumption, FS_Subset, FS_CardinalityType
<1>3. unfinished' \in Nat
  BY <1>1, <1>2, CountsAreNat DEF IInv, TypeOK
<1>4. TypeOK' /\ AtHand'
  BY <1>1, <1>3 DEF IInv, TypeOK, AtHand
<1>5. EveryCallAccounted'
  BY <1>1, <1>2, CountsAreNat, AccountsHold
<1> QED BY <1>4, <1>5 DEF IInv

LEMMA NextIInv == IInv /\ [Next]_vars => IInv'
<1> SUFFICES ASSUME IInv, [Next]_vars PROVE IInv'
  OBVIOUS
<1>1. CASE UNCHANGED vars
  BY <1>1 DEF vars, publishVars, consumeVars, IInv, TypeOK, AtHand, EveryCallAccounted,
              Stored
<1>2. CASE Next
  BY <1>2, NowaitKeeps, PublishBeginKeeps, PutKeeps, PutTimeoutKeeps, PublishEndKeeps,
     GetKeeps, HandlerKeeps DEF Next
<1> QED BY <1>1, <1>2

LEMMA Invariance == Spec => []IInv
BY InitIInv, NextIInv, PTL DEF Spec

(* The bus keeps its types: in particular the queue never holds more than  *)
(* maxsize events, whatever puts wait for room.                            *)
THEOREM TypeCorrectness == Spec => []TypeOK
<1>1. IInv => TypeOK
  BY DEF IInv
<1> QED BY <1>1, Invariance, PTL

(* Every call of publish() and publish_nowait() ends up rejected, dropped, *)
(* waiting or stored, and once; the queue's count of unfinished tasks is   *)
(* the events queued and in handlers, also when handlers raise.            *)
THEOREM Accounting == Spec => []EveryCallAccounted
<1>1. IInv => EveryCallAccounted
  BY DEF IInv
<1> QED BY <1>1, Invariance, PTL

-----------------------------------------------------------------------------
(* ONE PUBLISHER PER STREAM *)

OneOwner ==
  \A p, q \in Publishers : p # q => Publishes[p] \cap Publishes[q] = {}

(* What was stored of a stream has no larger number than the guard knows,  *)
(* unless the guard is about to learn of it.                               *)
GuardKnows ==
  \A i \in DOMAIN Stored :
    \/ Stored[i].sequence <= last[Stored[i].stream]
    \/ \E p \in Publishers : pc[p] = "stored" /\ event[p].stream = Stored[i].stream

(* A waiting event is still admissible, and one just stored is the newest  *)
(* of its stream.                                                          *)
HandIsNewest ==
  \A p \in Publishers :
    /\ pc[p] = "putting" => event[p].sequence > last[event[p].stream]
    /\ pc[p] = "stored" =>
         \A i \in DOMAIN Stored :
           Stored[i].stream = event[p].stream => Stored[i].sequence <= event[p].sequence

OrderInv == IInv /\ GuardKnows /\ HandIsNewest /\ StreamOrder

(* No two publishers have an event of one stream at hand. *)
LEMMA OnlyOne ==
  ASSUME OneOwner, IInv, NEW p \in Publishers, NEW q \in Publishers, p # q,
         NEW s \in Publishes[p]
  PROVE  /\ s \in Streams
         /\ pc[q] # "idle" => event[q].stream # s
BY BusAssumption DEF OneOwner, IInv, AtHand

LEMMA StoredTypes ==
  ASSUME IInv
  PROVE  \A i \in DOMAIN Stored :
           Stored[i] \in Event /\ Stored[i].stream \in Streams /\ Stored[i].sequence \in Nat
<1> SUFFICES ASSUME NEW i \in DOMAIN Stored
             PROVE  Stored[i].stream \in Streams /\ Stored[i].sequence \in Nat /\ Stored[i] \in Event
  OBVIOUS
<1>1. Stored[i] \in Event
  BY StoredIs
<1> QED BY <1>1, BusAssumption DEF Event

(* What publisher p may put is newer than all that is stored. *)
LEMMA NewerThanStored ==
  ASSUME OneOwner, OrderInv, NEW p \in Publishers, pc[p] # "stored",
         NEW e \in Event, e.stream \in Publishes[p], e.sequence > last[e.stream]
  PROVE  \A i \in DOMAIN Stored :
           Stored[i].stream = e.stream => Stored[i].sequence < e.sequence
<1> SUFFICES ASSUME NEW i \in DOMAIN Stored, Stored[i].stream = e.stream
             PROVE  Stored[i].sequence < e.sequence
  OBVIOUS
<1>1. \A q \in Publishers : ~(pc[q] = "stored" /\ event[q].stream = Stored[i].stream)
  BY OnlyOne DEF OrderInv
<1>2. Stored[i].sequence <= last[e.stream]
  BY <1>1 DEF OrderInv, GuardKnows
<1>3. Stored[i].sequence \in Int
  BY StoredTypes DEF OrderInv
<1>4. last[e.stream] \in Int /\ e.sequence \in Int
  BY BusAssumption DEF OrderInv, IInv, TypeOK, Event
<1> QED BY <1>2, <1>3, <1>4

(* Then the order is kept when p puts it. *)
LEMMA OrderGrows ==
  ASSUME OrderInv, NEW e \in Event, Enqueue(e), UNCHANGED delivered,
         \A i \in DOMAIN Stored :
           Stored[i].stream = e.stream => Stored[i].sequence < e.sequence
  PROVE  /\ StreamOrder'
         /\ DOMAIN Stored' = DOMAIN Stored \cup {Len(Stored) + 1}
         /\ \A i \in DOMAIN Stored : Stored'[i] = Stored[i]
         /\ Stored'[Len(Stored) + 1] = e
<1>1. Stored \in Seq(Event) /\ DOMAIN Stored = 1 .. Len(Stored) /\ Len(Stored) \in Nat
  BY StoredIs DEF OrderInv
<1>2. /\ Stored' \in Seq(Event) /\ Len(Stored') = Len(Stored) + 1
      /\ \A i \in 1 .. Len(Stored) : Stored'[i] = Stored[i]
      /\ Stored'[Len(Stored) + 1] = e
  BY StoredGrows DEF OrderInv, IInv, TypeOK, Enqueue, Stored
<1> HIDE DEF Stored
<1>3. DOMAIN Stored' = DOMAIN Stored \cup {Len(Stored) + 1}
  BY <1>1, <1>2
<1>4. StreamOrder'
  <2> SUFFICES ASSUME NEW i \in DOMAIN Stored', NEW j \in DOMAIN Stored', i < j,
                      Stored'[i].stream = Stored'[j].stream
               PROVE  Stored'[i].sequence < Stored'[j].sequence
    BY DEF StreamOrder
  <2>1. i \in DOMAIN Stored
    BY <1>1, <1>3
  <2> QED BY <1>1, <1>2, <1>3, <2>1 DEF OrderInv, StreamOrder
<1> QED BY <1>1, <1>2, <1>3, <1>4

LEMMA NowaitOrder ==
  ASSUME OneOwner, OrderInv, NEW p \in Publishers, NEW e \in Event, PublishNowait(p, e)
  PROVE  GuardKnows' /\ HandIsNewest' /\ StreamOrder'
<1>1. /\ pc[p] = "idle" /\ e.stream \in Publishes[p]
      /\ UNCHANGED <<pc, event, delivered>>
  BY DEF PublishNowait, Call, consumeVars
<1>2. CASE UNCHANGED <<queue, last>>
  BY <1>1, <1>2 DEF OrderInv, GuardKnows, HandIsNewest, StreamOrder, Stored
<1>3. CASE Admissible(e) /\ Record(e) /\ Enqueue(e)
  <2>1. \A i \in DOMAIN Stored :
          Stored[i].stream = e.stream => Stored[i].sequence < e.sequence
    BY <1>1, <1>3, NewerThanStored DEF Admissible
  <2>2. /\ StreamOrder'
        /\ DOMAIN Stored' = DOMAIN Stored \cup {Len(Stored) + 1}
        /\ \A i \in DOMAIN Stored : Stored'[i] = Stored[i]
        /\ Stored'[Len(Stored) + 1] = e
    BY <1>1, <1>3, <2>1, OrderGrows
  <2>3. /\ last'[e.stream] = e.sequence
        /\ \A s \in Streams \ {e.stream} : last'[s] = last[s]
    BY <1>3 DEF Record, OrderInv, IInv, TypeOK, Event
  <2>4. \A i \in DOMAIN Stored : Stored[i].stream \in Streams /\ Stored[i].sequence \in Nat
    BY StoredTypes DEF OrderInv
  <2>5. e.stream \in Streams /\ e.sequence \in Nat
    BY BusAssumption DEF Event
  <2> HIDE DEF Stored
  <2>6. GuardKnows'
    <3> SUFFICES ASSUME NEW i \in DOMAIN Stored'
                 PROVE  \/ Stored'[i].sequence <= last'[Stored'[i].stream]
                        \/ \E q \in Publishers :
                             pc'[q] = "stored" /\ event'[q].stream = Stored'[i].stream
      BY DEF GuardKnows
    <3>1. CASE i = Len(Stored) + 1
      BY <2>2, <2>3, <2>5, <3>1
    <3>2. CASE i \in DOMAIN Stored /\ Stored[i].stream = e.stream
      BY <2>1, <2>2, <2>3, <2>4, <2>5, <3>2
    <3>3. CASE i \in DOMAIN Stored /\ Stored[i].stream # e.stream
      BY <1>1, <2>2, <2>3, <2>4, <3>3 DEF OrderInv, GuardKnows
    <3> QED BY <2>2, <3>1, <3>2, <3>3
  <2>7. HandIsNewest'
    <3>1. \A q \in Publishers :
            pc[q] # "idle" => event[q].stream # e.stream /\ event[q].stream \in Streams
      BY <1>1, OnlyOne, BusAssumption DEF OrderInv, IInv, AtHand, Event
    <3> QED BY <1>1, <2>2, <2>3, <3>1 DEF OrderInv, HandIsNewest
  <2> QED BY <2>2, <2>6, <2>7
<1> QED BY <1>2, <1>3 DEF PublishNowait

LEMMA PutOrder ==
  ASSUME OneOwner, OrderInv, NEW p \in Publishers, Put(p)
  PROVE  GuardKnows' /\ HandIsNewest' /\ StreamOrder'
<1> DEFINE e == event[p]
<1>1. /\ pc[p] = "putting" /\ e \in Event /\ e.stream \in Publishes[p]
      /\ e.sequence > last[e.stream]
      /\ Enqueue(e) /\ UNCHANGED <<last, event, delivered>>
      /\ pc'[p] = "stored" /\ \A q \in Publishers \ {p} : pc'[q] = pc[q]
  BY DEF Put, consumeVars, OrderInv, IInv, TypeOK, AtHand, HandIsNewest
<1> HIDE DEF e
<1>2. \A i \in DOMAIN Stored :
        Stored[i].stream = e.stream => Stored[i].sequence < e.sequence
  BY <1>1, NewerThanStored
<1>3. /\ StreamOrder'
      /\ DOMAIN Stored' = DOMAIN Stored \cup {Len(Stored) + 1}
      /\ \A i \in DOMAIN Stored : Stored'[i] = Stored[i]
      /\ Stored'[Len(Stored) + 1] = e
  BY <1>1, <1>2, OrderGrows
<1>4. e.sequence \in Nat /\ \A i \in DOMAIN Stored : Stored[i].sequence \in Nat
  BY <1>1, StoredTypes, BusAssumption DEF OrderInv, Event
<1>5. event'[p] = e /\ event[p] = e
  BY <1>1 DEF e
<1>6. GuardKnows'
  <2> SUFFICES ASSUME NEW i \in DOMAIN Stored'
               PROVE  \/ Stored'[i].sequence <= last'[Stored'[i].stream]
                      \/ \E q \in Publishers :
                           pc'[q] = "stored" /\ event'[q].stream = Stored'[i].stream
    BY DEF GuardKnows
  <2>1. CASE i = Len(Stored) + 1
    BY <1>1, <1>3, <1>5, <2>1
  <2>2. CASE i \in DOMAIN Stored
    <3>1. \/ Stored[i].sequence <= last[Stored[i].stream]
          \/ \E q \in Publishers : pc[q] = "stored" /\ event[q].stream = Stored[i].stream
      BY <2>2 DEF OrderInv, GuardKnows
    <3> QED BY <1>1, <1>3, <2>2, <3>1
  <2> QED BY <1>3, <2>1, <2>2
<1>7. HandIsNewest'
  <2>1. \A q \in Publishers \ {p} : pc[q] # "idle" => event[q].stream # e.stream
    BY <1>1, OnlyOne DEF OrderInv
  <2>2. ASSUME NEW i \in DOMAIN Stored', Stored'[i].stream = e.stream
        PROVE  Stored'[i].sequence <= e.sequence
    BY <1>2, <1>3, <1>4, <2>2
  <2>3. ASSUME NEW q \in Publishers \ {p}, pc[q] = "stored",
               NEW i \in DOMAIN Stored', Stored'[i].stream = event[q].stream
        PROVE  Stored'[i].sequence <= event[q].sequence
    BY <1>3, <2>1, <2>3 DEF OrderInv, HandIsNewest
  <2> QED BY <1>1, <1>5, <2>2, <2>3 DEF OrderInv, HandIsNewest
<1> QED BY <1>3, <1>6, <1>7

LEMMA PublishEndOrder ==
  ASSUME OneOwner, OrderInv, NEW p \in Publishers, PublishEnd(p)
  PROVE  GuardKnows' /\ HandIsNewest' /\ StreamOrder'
<1> DEFINE e == event[p]
<1>1. /\ pc[p] = "stored" /\ e \in Event /\ e.stream \in Publishes[p]
      /\ Stored' = Stored
      /\ pc'[p] = "idle"
      /\ \A q \in Publishers \ {p} : pc'[q] = pc[q] /\ event'[q] = event[q]
  BY DEF PublishEnd, consumeVars, Stored, OrderInv, IInv, TypeOK, AtHand
<1>2. /\ last'[e.stream] = e.sequence
      /\ \A s \in Streams \ {e.stream} : last'[s] = last[s]
  BY <1>1 DEF PublishEnd, Record, OrderInv, IInv, TypeOK, Event
<1>3. event[p] = e
  OBVIOUS
<1> HIDE DEF e
<1>4. \A q \in Publishers \ {p} : pc[q] # "idle" => /\ event[q].stream # e.stream
                                                  /\ event[q].stream \in Streams
  BY <1>1, OnlyOne, BusAssumption DEF OrderInv, IInv, AtHand, Event
<1>5. \A i \in DOMAIN Stored : Stored[i].stream \in Streams
  BY StoredTypes DEF OrderInv
<1> HIDE DEF Stored
<1>6. GuardKnows'
  <2> SUFFICES ASSUME NEW i \in DOMAIN Stored
               PROVE  \/ Stored[i].sequence <= last'[Stored[i].stream]
                      \/ \E q \in Publishers :
                           pc'[q] = "stored" /\ event'[q].stream = Stored[i].stream
    BY <1>1 DEF GuardKnows
  <2>1. CASE Stored[i].stream = e.stream
    BY <1>1, <1>2, <1>3, <2>1 DEF OrderInv, HandIsNewest
  <2>2. CASE Stored[i].stream # e.stream
    <3>1. \/ Stored[i].sequence <= last[Stored[i].stream]
          \/ \E q \in Publishers : pc[q] = "stored" /\ event[q].stream = Stored[i].stream
      BY DEF OrderInv, GuardKnows
    <3> QED BY <1>1, <1>2, <1>3, <1>5, <2>2, <3>1
  <2> QED BY <2>1, <2>2
<1>7. HandIsNewest'
  BY <1>1, <1>2, <1>4 DEF OrderInv, HandIsNewest
<1>8. StreamOrder'
  BY <1>1 DEF OrderInv, StreamOrder
<1> QED BY <1>6, <1>7, <1>8

LEMMA OtherOrder ==
  ASSUME OrderInv,
         \/ \E p \in Publishers, e \in Event : PublishBegin(p, e)
         \/ \E p \in Publishers : PutTimeout(p)
         \/ \E c \in Consumers : Get(c) \/ HandlerReturns(c) \/ HandlerRaises(c)
         \/ UNCHANGED vars
  PROVE  GuardKnows' /\ HandIsNewest' /\ StreamOrder'
<1>1. Stored' = Stored /\ last' = last
  BY GetKeeps
     DEF OrderInv, PublishBegin, PutTimeout, Get, HandlerReturns, HandlerRaises, HandlerEnds,
         vars, publishVars, consumeVars, Stored
<1> HIDE DEF Stored
<1>2. CASE UNCHANGED <<pc, event>>
  BY <1>1, <1>2 DEF OrderInv, GuardKnows, HandIsNewest, StreamOrder
<1>3. ASSUME NEW p \in Publishers, NEW e \in Event, PublishBegin(p, e), ~UNCHANGED <<pc, event>>
      PROVE  GuardKnows' /\ HandIsNewest' /\ StreamOrder'
  <2>1. /\ pc[p] = "idle" /\ Admissible(e)
        /\ pc'[p] = "putting" /\ event'[p] = e
        /\ \A q \in Publishers \ {p} : pc'[q] = pc[q] /\ event'[q] = event[q]
    BY <1>3 DEF PublishBegin, Call, OrderInv, IInv, TypeOK
  <2> QED BY <1>1, <2>1 DEF OrderInv, GuardKnows, HandIsNewest, StreamOrder, Admissible
<1>4. ASSUME NEW p \in Publishers, PutTimeout(p)
      PROVE  GuardKnows' /\ HandIsNewest' /\ StreamOrder'
  <2>1. /\ pc[p] = "putting" /\ pc'[p] = "idle"
        /\ \A q \in Publishers \ {p} : pc'[q] = pc[q] /\ event'[q] = event[q]
    BY <1>4 DEF PutTimeout, OrderInv, IInv, TypeOK
  <2> QED BY <1>1, <2>1 DEF OrderInv, GuardKnows, HandIsNewest, StreamOrder
<1> QED BY <1>2, <1>3, <1>4
        DEF Get, HandlerReturns, HandlerRaises, HandlerEnds, vars, publishVars

LEMMA NextOrderInv == ASSUME OneOwner PROVE OrderInv /\ [Next]_vars => OrderInv'
<1> SUFFICES ASSUME OrderInv, [Next]_vars PROVE OrderInv'
  OBVIOUS
<1>1. IInv'
  BY NextIInv DEF OrderInv
<1>2. GuardKnows' /\ HandIsNewest' /\ StreamOrder'
  BY OneOwner, NowaitOrder, PutOrder, PublishEndOrder, OtherOrder DEF Next
<1> QED BY <1>1, <1>2 DEF OrderInv

LEMMA OrderInvariance == ASSUME OneOwner PROVE Spec => []OrderInv
<1>1. Init => OrderInv
  BY InitIInv DEF Init, OrderInv, GuardKnows, HandIsNewest, StreamOrder, Stored
<1> QED BY <1>1, NextOrderInv, PTL DEF Spec

(* The sequence guard: where every stream has one publisher, consumers get *)
(* its events in the order of their numbers, though the guards are read    *)
(* before the put is awaited and updated after it.                         *)
THEOREM SequenceGuard == ASSUME OneOwner PROVE Spec => []StreamOrder
<1>1. OrderInv => StreamOrder
  BY DEF OrderInv
<1> QED BY <1>1, OrderInvariance, PTL

(* The deduplication guard, under the same condition: no event reaches the *)
(* consumers twice.  With two publishers on one stream it may.             *)
THEOREM Deduplication == ASSUME OneOwner PROVE Spec => []EachEventOnce
<1>1. OrderInv => EachEventOnce
  <2> SUFFICES ASSUME OrderInv, NEW i \in DOMAIN Stored, NEW j \in DOMAIN Stored,
                      Key(Stored[i]) = Key(Stored[j]), i < j \/ j < i
               PROVE  FALSE
    BY StoredIs DEF OrderInv, EachEventOnce
  <2>1. Stored[i].sequence \in Nat /\ Stored[j].sequence \in Nat
    BY StoredTypes DEF OrderInv
  <2> QED BY <2>1 DEF OrderInv, StreamOrder, Key
<1> QED BY <1>1, OrderInvariance, PTL

=============================================================================
