----------------------------- MODULE HashChain -----------------------------
(***************************************************************************)
(* What a journal promises (data/durable_store.py): records are only ever  *)
(* added at the end, one at a time, numbered from one without a gap, and   *)
(* each carries the hash of the record before it.                          *)
(*                                                                         *)
(* A hash is taken to be free of collisions: it is the sequence of all     *)
(* that was hashed into it.                                                *)
(***************************************************************************)
EXTENDS Naturals, Sequences

CONSTANT Events   \* what the records carry: type, times, payload and schema

Genesis == << >>

Digest(sequence, event, previous) == Append(previous, <<sequence, event>>)

VARIABLE chain    \* the records, in order

LastHash == IF chain = << >> THEN Genesis ELSE chain[Len(chain)].hash

Record(sequence, event, previous) ==
  [sequence |-> sequence, event |-> event, previous |-> previous,
   hash |-> Digest(sequence, event, previous)]

Init == chain = << >>

Extend(event) ==
  chain' = Append(chain, Record(Len(chain) + 1, event, LastHash))

Next == \E event \in Events : Extend(event)

Spec == Init /\ [][Next]_chain
=============================================================================
