------------------------------ MODULE EventBus ------------------------------
(***************************************************************************)
(* BoundedEventBus (data/live_market.py): a bounded asyncio queue with     *)
(* guards against repeated and out-of-order events.                        *)
(*                                                                         *)
(* Publishers and consumers are tasks of one event loop, so a step runs    *)
(* from one suspension point to the next.  publish_nowait() never          *)
(* suspends.  publish() with a timeout suspends in wait_for(queue.put()):  *)
(* before it the guards are read, after it they are updated, and the put   *)
(* itself runs in a task of its own.  (On interpreters where a put into a  *)
(* queue with room completes without suspending, the three steps of one    *)
(* call simply follow each other.)                                         *)
(***************************************************************************)
EXTENDS Integers, Sequences, FiniteSets

CONSTANTS
  Streams,      \* (kind, symbol) pairs
  MaxSequence,  \* bound: events are numbered 0 .. MaxSequence per stream
  Publishers,   \* tasks that publish
  Consumers,    \* tasks that run consume()
  Publishes,    \* the streams a publisher publishes to
  MaxSize,      \* BoundedEventBus maxsize
  MaxCalls,     \* bound: calls of publish() and publish_nowait()
  NoEvent       \* no event at hand

(* ordered: available_at is not before event_time. *)
Event == [stream : Streams, sequence : 0 .. MaxSequence, ordered : BOOLEAN]
Key(e) == <<e.stream, e.sequence>>

ASSUME BusAssumption ==
  /\ MaxSequence \in Nat
  /\ IsFiniteSet(Publishers)
  /\ IsFiniteSet(Consumers)
  /\ Publishes \in [Publishers -> SUBSET Streams]
  /\ MaxSize \in Nat \ {0}
  /\ MaxCalls \in Nat
  /\ NoEvent \notin Event

VARIABLES
  queue,      \* BoundedEventBus.queue
  unfinished, \* the queue's count of tasks not yet done
  seen,       \* BoundedEventBus._seen
  last,       \* BoundedEventBus._last_sequence, -1 where it has no entry
  dropped,    \* BoundedEventBus.dropped
  rejected,   \* BoundedEventBus.rejected
  pc,         \* publisher: idle, putting (in wait_for) or stored (put done)
  event,      \* the event of a publisher that is not idle
  handling,   \* the event a consumer's handler works on
  failed,     \* consumers whose handler raised: consume() has ended
  calls,      \* calls so far
  delivered   \* history: the events handed to handlers, in order

publishVars == <<seen, last, dropped, rejected, pc, event, calls>>
consumeVars == <<handling, failed, delivered>>
vars == <<queue, unfinished, publishVars, consumeVars>>

TypeOK ==
  /\ queue \in Seq(Event)
  /\ Len(queue) <= MaxSize
  /\ unfinished \in Nat
  /\ seen \subseteq Streams \X (0 .. MaxSequence)
  /\ last \in [Streams -> -1 .. MaxSequence]
  /\ dropped \in Nat
  /\ rejected \in Nat
  /\ pc \in [Publishers -> {"idle", "putting", "stored"}]
  /\ event \in [Publishers -> Event \cup {NoEvent}]
  /\ handling \in [Consumers -> Event \cup {NoEvent}]
  /\ failed \subseteq Consumers
  /\ calls \in 0 .. MaxCalls
  /\ delivered \in Seq(Event)

Init ==
  /\ queue = << >>
  /\ unfinished = 0
  /\ seen = {}
  /\ last = [s \in Streams |-> -1]
  /\ dropped = 0
  /\ rejected = 0
  /\ pc = [p \in Publishers |-> "idle"]
  /\ event = [p \in Publishers |-> NoEvent]
  /\ handling = [c \in Consumers |-> NoEvent]
  /\ failed = {}
  /\ calls = 0
  /\ delivered = << >>

-----------------------------------------------------------------------------
(* PUBLISHERS *)

(* Mutant of Admissible: only exact repetitions are refused. *)
Unseen(e) == e.ordered /\ Key(e) \notin seen

Admissible(e) ==
  /\ e.ordered
  /\ Key(e) \notin seen
  /\ e.sequence > last[e.stream]

(* Mutant of Full: off by one. *)
Overfull == Len(queue) > MaxSize

Full == Len(queue) >= MaxSize

Enqueue(e) ==
  /\ queue' = Append(queue, e)
  /\ unfinished' = unfinished + 1

Record(e) ==
  /\ seen' = seen \cup {Key(e)}
  /\ last' = [last EXCEPT ![e.stream] = e.sequence]

Call(p, e) ==
  /\ pc[p] = "idle"
  /\ e.stream \in Publishes[p]
  /\ calls < MaxCalls
  /\ calls' = calls + 1

(* publish_nowait(), and publish() without a timeout. *)
PublishNowait(p, e) ==
  /\ Call(p, e)
  /\ \/ /\ ~Admissible(e)
        /\ rejected' = rejected + 1
        /\ UNCHANGED <<queue, unfinished, seen, last, dropped>>
     \/ /\ Admissible(e) /\ Full
        /\ dropped' = dropped + 1
        /\ UNCHANGED <<queue, unfinished, seen, last, rejected>>
     \/ /\ Admissible(e) /\ ~Full
        /\ Record(e)
        /\ Enqueue(e)
        /\ UNCHANGED <<dropped, rejected>>
  /\ UNCHANGED <<pc, event, consumeVars>>

(* publish() with a timeout, up to its await. *)
PublishBegin(p, e) ==
  /\ Call(p, e)
  /\ \/ /\ ~Admissible(e)
        /\ rejected' = rejected + 1
        /\ UNCHANGED <<pc, event>>
     \/ /\ Admissible(e)
        /\ pc' = [pc EXCEPT ![p] = "putting"]
        /\ event' = [event EXCEPT ![p] = e]
        /\ UNCHANGED rejected
  /\ UNCHANGED <<queue, unfinished, seen, last, dropped, consumeVars>>

(* The put finds room. *)
Put(p) ==
  /\ pc[p] = "putting"
  /\ ~Full
  /\ Enqueue(event[p])
  /\ pc' = [pc EXCEPT ![p] = "stored"]
  /\ UNCHANGED <<seen, last, dropped, rejected, event, calls, consumeVars>>

(* Mutants of PutTimeout: the event is not counted, the wait has no end. *)
PutTimeoutUncounted(p) ==
  /\ pc[p] = "putting"
  /\ pc' = [pc EXCEPT ![p] = "idle"]
  /\ event' = [event EXCEPT ![p] = NoEvent]
  /\ UNCHANGED <<queue, unfinished, seen, last, dropped, rejected, calls,
                 consumeVars>>

PutWithoutTimeout(p) == pc[p] = "putting" /\ FALSE /\ UNCHANGED vars

(* The timeout cancels the put. *)
PutTimeout(p) ==
  /\ pc[p] = "putting"
  /\ dropped' = dropped + 1
  /\ pc' = [pc EXCEPT ![p] = "idle"]
  /\ event' = [event EXCEPT ![p] = NoEvent]
  /\ UNCHANGED <<queue, unfinished, seen, last, rejected, calls, consumeVars>>

(* publish() after its await: the guards learn of the event. *)
PublishEnd(p) ==
  /\ pc[p] = "stored"
  /\ Record(event[p])
  /\ pc' = [pc EXCEPT ![p] = "idle"]
  /\ event' = [event EXCEPT ![p] = NoEvent]
  /\ UNCHANGED <<queue, unfinished, dropped, rejected, calls, consumeVars>>

-----------------------------------------------------------------------------
(* CONSUMERS *)

(* Mutant of Get: the last event is left in the queue. *)
GetAllButLast(c) ==
  /\ c \notin failed
  /\ handling[c] = NoEvent
  /\ Len(queue) > 1
  /\ handling' = [handling EXCEPT ![c] = Head(queue)]
  /\ delivered' = Append(delivered, Head(queue))
  /\ queue' = Tail(queue)
  /\ UNCHANGED <<unfinished, failed, publishVars>>

Get(c) ==
  /\ c \notin failed
  /\ handling[c] = NoEvent
  /\ queue # << >>
  /\ handling' = [handling EXCEPT ![c] = Head(queue)]
  /\ delivered' = Append(delivered, Head(queue))
  /\ queue' = Tail(queue)
  /\ UNCHANGED <<unfinished, failed, publishVars>>

(* The handler returns, or raises and ends consume(); task_done either way.*)
HandlerEnds(c) ==
  /\ handling[c] # NoEvent
  /\ handling' = [handling EXCEPT ![c] = NoEvent]
  /\ unfinished' = unfinished - 1
  /\ UNCHANGED <<queue, delivered, publishVars>>

HandlerReturns(c) == HandlerEnds(c) /\ UNCHANGED failed

HandlerRaises(c) == HandlerEnds(c) /\ failed' = failed \cup {c}

-----------------------------------------------------------------------------
Next ==
  \/ \E p \in Publishers, e \in Event : PublishNowait(p, e) \/ PublishBegin(p, e)
  \/ \E p \in Publishers : Put(p) \/ PutTimeout(p) \/ PublishEnd(p)
  \/ \E c \in Consumers : Get(c) \/ HandlerReturns(c) \/ HandlerRaises(c)

Spec == Init /\ [][Next]_vars

(* The event loop runs every task that is ready.  A put that has no room   *)
(* ends by its timeout; handlers are assumed to end.  Nobody has to call   *)
(* publish(), and no handler has to raise.                                 *)
Fairness ==
  /\ \A p \in Publishers : WF_vars(Put(p) \/ PutTimeout(p)) /\ WF_vars(PublishEnd(p))
  /\ \A c \in Consumers :
       WF_vars(Get(c)) /\ WF_vars(HandlerReturns(c) \/ HandlerRaises(c))

FairSpec == Spec /\ Fairness

-----------------------------------------------------------------------------
(* PROPERTIES *)

(* Everything that was put into the queue, in the order it was put.        *)
Stored == delivered \o queue

(* The consumers get the events of one stream in the order of their        *)
(* sequence numbers, each at most once ("sequence/deduplication guards").  *)
StreamOrder ==
  \A i, j \in DOMAIN Stored :
    (i < j /\ Stored[i].stream = Stored[j].stream) =>
      Stored[i].sequence < Stored[j].sequence

(* No event is handed to consumers twice. *)
EachEventOnce ==
  \A i, j \in DOMAIN Stored : Key(Stored[i]) = Key(Stored[j]) => i = j

(* Every call is accounted for exactly once: rejected, dropped, still      *)
(* waiting to be put, in the queue or delivered; and the queue's own count *)
(* of unfinished tasks, what queue.join() waits for, stays exact when      *)
(* handlers raise.                                                         *)
EveryCallAccounted ==
  /\ calls = rejected + dropped + Len(Stored)
               + Cardinality({p \in Publishers : pc[p] = "putting"})
  /\ unfinished = Len(queue) + Cardinality({c \in Consumers : handling[c] # NoEvent})

(* Backpressure never blocks a publisher for good: publish() returns, also *)
(* when no consumer is left.                                               *)
PublishReturns == \A p \in Publishers : (pc[p] # "idle") ~> (pc[p] = "idle")

(* What was put into the queue reaches a handler, unless every consumer    *)
(* has been ended by its handler.                                          *)
StoredIsDelivered ==
  \A n \in 1 .. MaxCalls :
    (Len(Stored) >= n) ~> (Len(delivered) >= n \/ failed = Consumers)
=============================================================================
