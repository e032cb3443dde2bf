------------------------- MODULE PaperTradingProofs -------------------------
(***************************************************************************)
(* Theorems about PaperTrading, for any callers, requests, contracts,      *)
(* limits and bounds.                                                      *)
(***************************************************************************)
EXTENDS PaperTrading, Sums, TLAPS

-----------------------------------------------------------------------------
(* THE GATE *)

(* An order passes the gate only when none of its refusals applies. *)
FourRefusals(r) ==
  /\ DOMAIN r = 1 .. 4
  /\ r[1][1] # "approved" /\ r[2][1] # "approved"
  /\ r[3][1] # "approved" /\ r[4][1] # "approved"

LEMMA OfFour == \A i \in 1 .. 4 : i = 1 \/ i = 2 \/ i = 3 \/ i = 4
OBVIOUS

LEMMA LeastOfFour ==
  ASSUME NEW hits \in SUBSET (1 .. 4), hits # {}
  PROVE  Min(hits) \in hits
<1>1. \E i \in hits : \A j \in hits : i <= j
  <2>1. CASE 1 \in hits
    BY <2>1
  <2>2. CASE 1 \notin hits /\ 2 \in hits
    BY <2>2
  <2>3. CASE 1 \notin hits /\ 2 \notin hits /\ 3 \in hits
    BY <2>3
  <2>4. CASE 1 \notin hits /\ 2 \notin hits /\ 3 \notin hits
    <3>1. \A j \in hits : j = 4
      BY <2>4, OfFour
    <3>2. 4 \in hits
      BY <3>1
    <3> QED BY <3>1, <3>2
  <2> QED BY <2>1, <2>2, <2>3, <2>4
<1> QED BY <1>1 DEF Min

LEMMA NoRefusal ==
  ASSUME NEW r, FourRefusals(r), Verdict(r) = "approved"
  PROVE  \A i \in 1 .. 4 : ~r[i][2]
<1> DEFINE hits == {i \in DOMAIN r : r[i][2]}
<1>1. \A i \in 1 .. 4 : r[i][1] # "approved"
  BY OfFour DEF FourRefusals
<1>2. DOMAIN r = 1 .. 4
  BY DEF FourRefusals
<1>3. hits \in SUBSET (1 .. 4)
  BY <1>2
<1>4. hits # {} => Verdict(r) = r[Min(hits)][1]
  BY DEF Verdict
<1>5. hits = {}
  <2> HIDE DEF hits
  <2> QED BY <1>1, <1>3, <1>4, LeastOfFour
<1> QED BY <1>2, <1>5

LEMMA GatePasses ==
  ASSUME NEW limits, NEW snapshot, NEW notional,
         PythonGate(limits, snapshot, notional) = "approved"
  PROVE  /\ snapshot.kill # TRUE
         /\ ~Less(limits.order, notional)
         /\ ~Less(limits.open, Plus(snapshot.open, notional))
<1> DEFINE r == PythonRefusals(limits, snapshot, notional)
<1>1. FourRefusals(r)
  BY DEF PythonRefusals, FourRefusals
<1>2. /\ r[1][2] = snapshot.kill
      /\ r[2][2] = (AtMost(notional, Zero) \/ Less(limits.order, notional))
      /\ r[3][2] = Less(limits.open, Plus(snapshot.open, notional))
  BY DEF PythonRefusals
<1>3. Verdict(r) = "approved"
  BY DEF PythonGate
<1> HIDE DEF r
<1>4. ~r[1][2] /\ ~r[2][2] /\ ~r[3][2]
  BY <1>1, <1>3, NoRefusal
<1> QED BY <1>2, <1>4

(* An engaged kill switch refuses every order, whatever the limits say. *)
LEMMA KillRefuses ==
  ASSUME NEW limits, NEW snapshot, NEW notional, snapshot.kill = TRUE
  PROVE  PythonGate(limits, snapshot, notional) # "approved"
BY GatePasses

-----------------------------------------------------------------------------
(* THE INDUCTIVE INVARIANT *)

Counters ==
  /\ second \in 0 .. MaxSecond
  /\ calls \in 0 .. MaxCalls
  /\ faults \in 0 .. MaxFaults
  /\ late \in [Procs -> Nat]

Switches ==
  /\ dotenv \in Texts
  /\ environ \in [Procs -> Texts]
  /\ blind \in BOOLEAN

(* A process that places has an intent, and what its gate sees is not      *)
(* negative.                                                               *)
ProcInv ==
  /\ st = [p \in Procs |-> [pc |-> st[p].pc, intent |-> st[p].intent,
                            snapshot |-> st[p].snapshot]]
  /\ \A p \in Procs :
       /\ st[p].pc \in {"idle", "ready", "batch", "place"}
       /\ st[p].pc = "place" => st[p].intent.client # <<>>
       /\ ~Less(st[p].snapshot.open, Zero)

(* No batch is taken that was not pushed. *)
LoopInv ==
  /\ loop \in [queue : Seq(Nat), halted : BOOLEAN, batches : Nat, taken : Nat,
               left : 0 .. BatchSize, submitted : Nat]
  /\ Len(loop.queue) <= MaxQueue
  /\ loop.taken <= loop.batches
  /\ BatchesAccounted

(* The records of the broker are orders, one per client order id. *)
OrderInv ==
  /\ \A o \in orders : o = [client |-> o.client, by |-> o.by, signed |-> o.signed,
                             filled |-> o.filled, rested |-> o.rested]
  /\ \A o1, o2 \in orders : o1.client = o2.client => o1 = o2

(* An intent is placed only while one is left of the batch. *)
Begun == st[Loop].pc = "place" => loop.left > 0

(* A caller whose environment knows nothing of the switch has let nothing  *)
(* pass after it was set; the loop has placed nothing too many before      *)
(* halt(), and after it what it placed and has still to place is a batch.  *)
LateInv ==
  /\ \A c \in Callers : /\ environ[c] = "unset" => late[c] = 0
                        /\ environ[c] = "true" => late[c] <= 1
  /\ IF loop.halted THEN late[Loop] + loop.left <= BatchSize ELSE late[Loop] = 0

IInv ==
  /\ Counters /\ Switches
  /\ ProcInv /\ LoopInv /\ OrderInv
  /\ IsFiniteSet(told) /\ OrdersAreOwn
  /\ Begun /\ LateInv

LEMMA Bounds ==
  /\ MaxQueue \in Nat /\ MaxQueue > 0 /\ BatchSize \in Nat /\ BatchSize > 0
  /\ MaxCalls \in Nat /\ MaxBatches \in Nat /\ MaxSecond \in Nat /\ MaxFaults \in Nat
  /\ Loop \in Procs /\ Loop \notin Callers /\ Callers \subseteq Procs
BY PaperAssumption DEF Procs

LEMMA NothingOpen == ~Less(Zero, Zero)
BY DEF Less, Zero

LEMMA InitIInv == Init => IInv
<1> SUFFICES ASSUME Init PROVE IInv
  OBVIOUS
<1>1. Counters
  BY Bounds DEF Init, Counters
<1>2. Switches
  BY PaperAssumption DEF Init, Switches, Texts
<1>3. ProcInv
  <2>1. \A p \in Procs :
          /\ st[p].pc = "idle" /\ st[p].snapshot.open = Zero
          /\ st[p] = [pc |-> st[p].pc, intent |-> st[p].intent, snapshot |-> st[p].snapshot]
    BY DEF Init, Quiet, NoSnapshot
  <2> QED BY <2>1, NothingOpen DEF Init, ProcInv
<1>4. LoopInv
  BY Bounds DEF Init, LoopInv, BatchesAccounted
<1>5. OrderInv
  BY DEF Init, OrderInv
<1>6. IsFiniteSet(told) /\ OrdersAreOwn
  <2>1. {t \in told : t[1] = Loop} = {}
    BY DEF Init
  <2> QED BY <2>1, FS_EmptySet DEF Init, OrdersAreOwn
<1>7. Begun /\ LateInv
  BY Bounds DEF Init, Begun, LateInv, Quiet
<1> QED BY <1>1, <1>2, <1>3, <1>4, <1>5, <1>6, <1>7 DEF IInv

(* One process moves: its record is replaced by another. *)
LEMMA Moves ==
  ASSUME ProcInv, NEW p \in Procs, NEW r,
         r = [pc |-> r.pc, intent |-> r.intent, snapshot |-> r.snapshot],
         r.pc \in {"idle", "ready", "batch", "place"},
         r.pc = "place" => r.intent.client # <<>>,
         ~Less(r.snapshot.open, Zero),
         st' = [st EXCEPT ![p] = r]
  PROVE  /\ ProcInv'
         /\ st'[p] = r
         /\ \A q \in Procs \ {p} : st'[q] = st[q]
<1>1. DOMAIN st = Procs /\ st = [q \in Procs |-> st[q]]
  BY DEF ProcInv
<1>2. st'[p] = r /\ \A q \in Procs \ {p} : st'[q] = st[q]
  BY <1>1
<1>3. st' = [q \in Procs |-> st'[q]]
  BY <1>1
<1>4. \A q \in Procs : st[q] = [pc |-> st[q].pc, intent |-> st[q].intent,
                               snapshot |-> st[q].snapshot]
  BY DEF ProcInv
<1>5. \A q \in Procs : st'[q] = [pc |-> st'[q].pc, intent |-> st'[q].intent,
                                snapshot |-> st'[q].snapshot]
  BY <1>2, <1>4
<1>6. ProcInv'
  BY <1>2, <1>3, <1>5 DEF ProcInv
<1> QED BY <1>2, <1>6

(* process_once and submit_paper end: the process is idle again. *)
LEMMA GoesQuiet ==
  ASSUME ProcInv, NEW p \in Procs, st' = [st EXCEPT ![p] = Quiet]
  PROVE  /\ ProcInv' /\ st'[p].pc = "idle"
         /\ \A q \in Procs \ {p} : st'[q] = st[q]
<1>1. /\ Quiet = [pc |-> Quiet.pc, intent |-> Quiet.intent, snapshot |-> Quiet.snapshot]
      /\ Quiet.pc = "idle" /\ Quiet.snapshot.open = Zero
  BY DEF Quiet, NoSnapshot
<1> QED BY <1>1, NothingOpen, Moves

(* A process goes on to the submission of an intent. *)
LEMMA GoesToPlace ==
  ASSUME NEW x, NEW i,
         x = [pc |-> x.pc, intent |-> x.intent, snapshot |-> x.snapshot]
  PROVE  [x EXCEPT !.pc = "place", !.intent = i]
           = [pc |-> "place", intent |-> i, snapshot |-> x.snapshot]
<1> DEFINE y == [x EXCEPT !.pc = "place"]
<1>1. y = [pc |-> "place", intent |-> x.intent, snapshot |-> x.snapshot]
  OBVIOUS
<1> HIDE DEF y
<1>2. [y EXCEPT !.intent = i] = [pc |-> "place", intent |-> i, snapshot |-> x.snapshot]
  BY <1>1
<1> QED BY <1>2 DEF y

(* The loop goes to another place with what it has at hand. *)
LEMMA LoopGoes ==
  ASSUME ProcInv, NEW p \in Procs, NEW pc \in {"idle", "ready", "batch"},
         st' = [st EXCEPT ![p].pc = pc]
  PROVE  /\ ProcInv' /\ st'[p].pc = pc
         /\ \A q \in Procs \ {p} : st'[q] = st[q]
<1> DEFINE r == [st[p] EXCEPT !.pc = pc]
<1>1. st[p] = [pc |-> st[p].pc, intent |-> st[p].intent, snapshot |-> st[p].snapshot]
  BY DEF ProcInv
<1>2. /\ r = [pc |-> r.pc, intent |-> r.intent, snapshot |-> r.snapshot]
      /\ r.pc = pc /\ r.snapshot = st[p].snapshot
  BY <1>1
<1>3. st' = [st EXCEPT ![p] = r]
  OBVIOUS
<1> HIDE DEF r
<1>4. ~Less(r.snapshot.open, Zero)
  BY <1>2 DEF ProcInv
<1>5. r.pc \in {"idle", "ready", "batch", "place"} /\ r.pc # "place"
  BY <1>2
<1>6. ProcInv' /\ st'[p] = r /\ \A q \in Procs \ {p} : st'[q] = st[q]
  BY <1>2, <1>3, <1>4, <1>5, Moves
<1> QED BY <1>2, <1>6

-----------------------------------------------------------------------------
(* THE STEPS *)

(* Numbers in order, and the next one; and without the first one. *)
LEMMA NextNumber ==
  ASSUME NEW n \in Nat, NEW m \in Nat, n <= m, NEW queue \in Seq(Nat),
         queue = [i \in 1 .. (m - n) |-> n + i]
  PROVE  Append(queue, m + 1) = [i \in 1 .. ((m + 1) - n) |-> n + i]
<1>1. Len(queue) = m - n
  OBVIOUS
<1> DEFINE r == [i \in 1 .. ((m + 1) - n) |-> n + i]
<1>2. DOMAIN Append(queue, m + 1) = 1 .. ((m + 1) - n)
  BY <1>1
<1>3. \A i \in 1 .. (m - n) : Append(queue, m + 1)[i] = n + i
  BY <1>1
<1>4. Append(queue, m + 1)[(m - n) + 1] = m + 1
  BY <1>1
<1>5. \A i \in 1 .. ((m + 1) - n) : Append(queue, m + 1)[i] = n + i
  BY <1>3, <1>4
<1> QED BY <1>2, <1>5

LEMMA TailOfNumbers ==
  ASSUME NEW n \in Nat, NEW m \in Nat, n < m, NEW queue \in Seq(Nat),
         queue = [i \in 1 .. (m - n) |-> n + i]
  PROVE  Tail(queue) = [i \in 1 .. (m - (n + 1)) |-> (n + 1) + i]
<1>1. Len(queue) = m - n
  OBVIOUS
<1>2. DOMAIN Tail(queue) = 1 .. (m - (n + 1))
  BY <1>1
<1>3. \A i \in 1 .. (m - (n + 1)) : Tail(queue)[i] = queue[i + 1]
  BY <1>1
<1>4. \A i \in 1 .. (m - (n + 1)) : Tail(queue)[i] = (n + 1) + i
  BY <1>1, <1>3
<1> QED BY <1>2, <1>4

(* The owner pushes a batch, and the queue has room for it. *)
LEMMA PushKeeps == IInv /\ PushQuotes => IInv'
<1> SUFFICES ASSUME IInv, PushQuotes PROVE IInv'
  OBVIOUS
<1> DEFINE batch == loop.batches + 1
<1>1. /\ loop.batches \in Nat /\ loop.taken \in Nat /\ loop.taken <= loop.batches
      /\ loop.queue \in Seq(Nat) /\ Len(loop.queue) <= MaxQueue
      /\ loop.queue = [i \in 1..(loop.batches - loop.taken) |-> loop.taken + i]
      /\ Len(loop.queue) # MaxQueue
  BY DEF IInv, LoopInv, BatchesAccounted, PushQuotes, Backpressure
<1>2. loop' = [loop EXCEPT !.batches = batch, !.queue = Append(loop.queue, batch)]
  BY <1>1 DEF PushQuotes, Appended
<1>3. Append(loop.queue, batch) \in Seq(Nat)
  BY <1>1
<1>4. Len(Append(loop.queue, batch)) <= MaxQueue
  BY <1>1, Bounds
<1>5. Append(loop.queue, batch)
        = [i \in 1..(batch - loop.taken) |-> loop.taken + i]
  <2>1. Len(loop.queue) = loop.batches - loop.taken
    BY <1>1
  <2> QED BY <1>1, <2>1, NextNumber
<1> DEFINE queue == Append(loop.queue, batch)
<1>6. /\ loop'.queue = queue /\ loop'.batches = batch
      /\ loop'.halted = loop.halted /\ loop'.taken = loop.taken
      /\ loop'.left = loop.left /\ loop'.submitted = loop.submitted
      /\ loop' \in [queue : Seq(Nat), halted : BOOLEAN, batches : Nat, taken : Nat,
                    left : 0 .. BatchSize, submitted : Nat]
  <2>1. queue \in Seq(Nat) /\ batch \in Nat
    BY <1>1, <1>3
  <2>2. loop' = [loop EXCEPT !.batches = batch, !.queue = queue]
    BY <1>2
  <2> HIDE DEF queue, batch
  <2> QED BY <2>1, <2>2 DEF IInv, LoopInv
<1>7. LoopInv'
  <2>1. /\ batch \in Nat /\ loop.taken <= batch /\ Len(queue) <= MaxQueue
        /\ queue = [i \in 1..(batch - loop.taken) |-> loop.taken + i]
    BY <1>1, <1>4, <1>5
  <2> HIDE DEF queue, batch
  <2> QED BY <2>1, <1>6 DEF LoopInv, BatchesAccounted
<1>8. UNCHANGED <<second, dotenv, environ, st, calls, orders, told, late, blind, faults>>
  BY DEF PushQuotes
<1> QED BY <1>6, <1>7, <1>8
        DEF IInv, Counters, Switches, ProcInv, OrderInv, OrdersAreOwn, Begun, LateInv

LEMMA HaltKeeps == IInv /\ Halt => IInv'
<1> SUFFICES ASSUME IInv, Halt PROVE IInv'
  OBVIOUS
<1>1. /\ ~loop.halted /\ loop' = [loop EXCEPT !.halted = TRUE]
      /\ UNCHANGED <<second, dotenv, environ, st, calls, orders, told, late, blind, faults>>
  BY DEF Halt
<1>2. /\ loop'.queue = loop.queue /\ loop'.batches = loop.batches
      /\ loop'.halted = TRUE /\ loop'.taken = loop.taken
      /\ loop'.left = loop.left /\ loop'.submitted = loop.submitted
      /\ loop' \in [queue : Seq(Nat), halted : BOOLEAN, batches : Nat, taken : Nat,
                    left : 0 .. BatchSize, submitted : Nat]
  BY <1>1 DEF IInv, LoopInv
<1>3. LoopInv'
  BY <1>2 DEF IInv, LoopInv, BatchesAccounted
<1>4. late[Loop] + loop.left <= BatchSize
  BY <1>1, Bounds DEF IInv, LateInv, LoopInv
<1>5. LateInv'
  BY <1>1, <1>2, <1>4 DEF IInv, LateInv
<1> QED BY <1>1, <1>2, <1>3, <1>5
        DEF IInv, Counters, Switches, ProcInv, OrderInv, OrdersAreOwn, Begun

(* The account is read for the loop. *)
LEMMA LoopSnapshotKeeps == IInv /\ LoopSnapshot => IInv'
<1> SUFFICES ASSUME IInv, LoopSnapshot PROVE IInv'
  OBVIOUS
<1>1. PICK loss \in Losses \cup {Zero}, open \in {{Positions}, Zero} :
        /\ ReadPositions(open)
        /\ IsValid(SnapshotOf(Loop, open, loss))
        /\ st' = [st EXCEPT ![Loop] = [pc |-> "ready", intent |-> NoIntent,
                                       snapshot |-> SnapshotOf(Loop, open, loss)]]
  BY DEF LoopSnapshot
<1> DEFINE r == [pc |-> "ready", intent |-> NoIntent, snapshot |-> SnapshotOf(Loop, open, loss)]
<1>2. /\ r = [pc |-> r.pc, intent |-> r.intent, snapshot |-> r.snapshot]
      /\ r.pc = "ready" /\ ~Less(r.snapshot.open, Zero)
      /\ st' = [st EXCEPT ![Loop] = r]
  BY <1>1 DEF IsValid
<1> HIDE DEF r
<1>3. ProcInv' /\ st'[Loop].pc = "ready"
  <2>1. ProcInv /\ Loop \in Procs
    BY Bounds DEF IInv
  <2> QED BY <1>2, <2>1, Moves
<1>4. faults' \in 0 .. MaxFaults
  BY <1>1, Bounds DEF ReadPositions, Fault, IInv, Counters
<1>5. blind' \in BOOLEAN
  BY <1>1 DEF ReadPositions, IInv, Switches
<1>6. UNCHANGED <<second, dotenv, environ, calls, loop, orders, told, late>>
  BY DEF LoopSnapshot
<1>7. Counters' /\ Switches' /\ Begun'
  BY <1>3, <1>4, <1>5, <1>6 DEF IInv, Counters, Switches, Begun
<1> QED BY <1>3, <1>6, <1>7
        DEF IInv, LoopInv, BatchesAccounted, OrderInv, OrdersAreOwn, LateInv

(* The oldest batch is taken, none after halt(). *)
LEMMA ProcessKeeps == IInv /\ ProcessOnce => IInv'
<1> SUFFICES ASSUME IInv, ProcessOnce PROVE IInv'
  OBVIOUS
<1>1. UNCHANGED <<second, dotenv, environ, calls, orders, told, late, blind, faults>>
  BY DEF ProcessOnce
<1>2. CASE st' = [st EXCEPT ![Loop] = Quiet] /\ UNCHANGED loop
  <2>1. ProcInv' /\ st'[Loop].pc = "idle"
    BY <1>2, Bounds, GoesQuiet DEF IInv
  <2> QED BY <1>1, <1>2, <2>1
          DEF IInv, Counters, Switches, LoopInv, BatchesAccounted, OrderInv, OrdersAreOwn,
              Begun, LateInv
<1>3. CASE /\ ~loop.halted /\ loop.queue # <<>>
           /\ st' = [st EXCEPT ![Loop].pc = "batch"]
           /\ loop' = [loop EXCEPT !.queue = Tail(@), !.taken = Head(loop.queue),
                                   !.left = BatchSize]
  <2>1. ProcInv' /\ st'[Loop].pc = "batch"
    BY <1>3, Bounds, LoopGoes DEF IInv
  <2>2. /\ loop.batches \in Nat /\ loop.taken \in Nat /\ loop.taken <= loop.batches
        /\ loop.queue \in Seq(Nat) /\ Len(loop.queue) <= MaxQueue
        /\ loop.queue = [i \in 1..(loop.batches - loop.taken) |-> loop.taken + i]
    BY DEF IInv, LoopInv, BatchesAccounted
  <2>3. Len(loop.queue) = loop.batches - loop.taken /\ Len(loop.queue) > 0
    BY <1>3, <2>2
  <2>4. Head(loop.queue) = loop.taken + 1
    BY <2>2, <2>3
  <2> DEFINE queue == Tail(loop.queue)
  <2>5. /\ queue \in Seq(Nat)
        /\ Len(queue) <= MaxQueue
        /\ queue = [i \in 1..(loop.batches - (loop.taken + 1)) |-> (loop.taken + 1) + i]
    <3>1. queue \in Seq(Nat) /\ Len(queue) = Len(loop.queue) - 1
      BY <1>3, <2>2
    <3>2. loop.taken < loop.batches
      BY <2>2, <2>3
    <3>3. queue = [i \in 1..(loop.batches - (loop.taken + 1)) |-> (loop.taken + 1) + i]
      BY <2>2, <3>2, TailOfNumbers
    <3>4. Len(queue) <= MaxQueue
      BY <2>2, <3>1, Bounds
    <3> QED BY <3>1, <3>3, <3>4
  <2>6. /\ loop'.queue = queue /\ loop'.batches = loop.batches
        /\ loop'.halted = loop.halted /\ loop'.taken = loop.taken + 1
        /\ loop'.left = BatchSize /\ loop'.submitted = loop.submitted
        /\ loop' \in [queue : Seq(Nat), halted : BOOLEAN, batches : Nat, taken : Nat,
                      left : 0 .. BatchSize, submitted : Nat]
    <3>1. loop' = [loop EXCEPT !.queue = queue, !.taken = loop.taken + 1, !.left = BatchSize]
      BY <1>3, <2>4
    <3>2. loop.taken + 1 \in Nat /\ BatchSize \in 0 .. BatchSize
      BY <2>2, Bounds
    <3> HIDE DEF queue
    <3> QED BY <2>5, <3>1, <3>2 DEF IInv, LoopInv
  <2>7. LoopInv'
    <3>1. loop.taken + 1 <= loop.batches
      BY <2>2, <2>3
    <3> HIDE DEF queue
    <3> QED BY <2>5, <2>6, <3>1 DEF LoopInv, BatchesAccounted
  <2>8. Begun' /\ LateInv'
    BY <1>1, <1>3, <2>1, <2>6 DEF IInv, Begun, LateInv
  <2> QED BY <1>1, <2>1, <2>6, <2>7, <2>8
          DEF IInv, Counters, Switches, OrderInv, OrdersAreOwn
<1> QED BY <1>2, <1>3 DEF ProcessOnce

(* The gate decides the next intent of the batch. *)
LEMMA IntentKeeps == IInv /\ NextIntent => IInv'
<1> SUFFICES ASSUME IInv, NextIntent PROVE IInv'
  OBVIOUS
<1>1. UNCHANGED <<second, dotenv, environ, calls, orders, told, late, blind, faults>>
  BY DEF NextIntent
<1>2. CASE BatchDone
  <2>1. ProcInv' /\ st'[Loop].pc = "idle" /\ loop' = loop
    BY <1>2, Bounds, GoesQuiet DEF IInv, BatchDone
  <2> QED BY <1>1, <2>1 DEF IInv, Counters, Switches, LoopInv, BatchesAccounted,
                            OrderInv, OrdersAreOwn, Begun, LateInv
<1>4. ASSUME NEW amount, PassedOver(amount), loop.left > 0 PROVE IInv'
  <2>1. st' = st /\ loop' = [loop EXCEPT !.left = loop.left - 1]
    BY <1>4 DEF PassedOver
  <2>2. /\ loop'.queue = loop.queue /\ loop'.batches = loop.batches
        /\ loop'.halted = loop.halted /\ loop'.taken = loop.taken
        /\ loop'.left = loop.left - 1 /\ loop'.submitted = loop.submitted
        /\ loop' \in [queue : Seq(Nat), halted : BOOLEAN, batches : Nat, taken : Nat,
                      left : 0 .. BatchSize, submitted : Nat]
    BY <1>4, <2>1, Bounds, SMTT(30) DEF IInv, LoopInv
  <2>3. LoopInv'
    BY <2>2 DEF IInv, LoopInv, BatchesAccounted
  <2>4. late[Loop] \in Nat /\ loop.left \in Nat
    BY Bounds DEF IInv, Counters, LoopInv
  <2>5. LateInv'
    BY <1>1, <2>2, <2>4, Bounds DEF IInv, LateInv
  <2>6. Begun'
    <3>1. st[Loop].pc = "batch"
      BY DEF NextIntent
    <3> QED BY <2>1, <3>1 DEF Begun
  <2> QED BY <1>1, <2>1, <2>2, <2>3, <2>5, <2>6
          DEF IInv, Counters, Switches, ProcInv, OrderInv, OrdersAreOwn
<1>3. ASSUME NEW amount, Sending(amount), loop.left > 0 PROVE IInv'
  <2> DEFINE intent == [client |-> <<"loop", loop.taken, loop.left>>,
                        amount |-> amount]
             r == [pc |-> "place", intent |-> intent, snapshot |-> st[Loop].snapshot]
  <2>1. /\ st[Loop] = [pc |-> st[Loop].pc, intent |-> st[Loop].intent,
                       snapshot |-> st[Loop].snapshot]
        /\ ~Less(st[Loop].snapshot.open, Zero)
        /\ DOMAIN st = Procs
    BY Bounds DEF IInv, ProcInv
  <2>2. intent.client # <<>> /\ loop' = loop
    BY <1>3 DEF Sending
  <2>3. st' = [st EXCEPT ![Loop] = r]
    <3>1. st' = [st EXCEPT ![Loop] = [st[Loop] EXCEPT !.pc = "place", !.intent = intent]]
      BY <1>3, <2>1, Bounds DEF Sending
    <3> HIDE DEF intent
    <3> QED BY <2>1, <3>1, GoesToPlace
  <2> HIDE DEF intent
  <2>4. /\ r = [pc |-> r.pc, intent |-> r.intent, snapshot |-> r.snapshot]
        /\ r.pc = "place" /\ r.intent = intent /\ r.snapshot = st[Loop].snapshot
    BY <2>1
  <2> HIDE DEF r
  <2>5. ProcInv'
    BY <2>1, <2>2, <2>3, <2>4, Bounds, Moves DEF IInv
  <2> QED BY <1>1, <1>3, <2>2, <2>5
          DEF IInv, Counters, Switches, LoopInv, BatchesAccounted, OrderInv, OrdersAreOwn,
              Begun, LateInv
<1> QED BY <1>2, <1>3, <1>4 DEF NextIntent

(* A caller's gate decides. *)
LEMMA CallKeeps == ASSUME IInv, NEW c \in Callers, CallTool(c) PROVE IInv'
<1>1. PICK request \in Requests, contract \in Contracts, loss \in Losses \cup {Zero},
           open \in {{Positions}, Zero} :
        LET amount == NotionalOf(request, contract)
            seen == SnapshotOf(c, open, loss)
        IN
        /\ ReadPositions(open)
        /\ IF GateAdmits(seen, amount)
           THEN Admitted(c, IF request.side = "buy" THEN amount ELSE 0 - amount)
           ELSE UNCHANGED <<second, st, late, calls>>
  BY DEF CallTool
<1> DEFINE amount == NotionalOf(request, contract)
           seen == SnapshotOf(c, open, loss)
<1>2. /\ environ' = [environ EXCEPT ![c] = Loaded(c)]
      /\ UNCHANGED <<dotenv, loop, orders, told>>
      /\ c \in Procs /\ c # Loop
      /\ calls < MaxCalls
  BY Bounds DEF CallTool
<1>3. faults' \in 0 .. MaxFaults
  BY <1>1, Bounds DEF ReadPositions, Fault, IInv, Counters
<1>4. blind' \in BOOLEAN
  BY <1>1 DEF ReadPositions, IInv, Switches
<1>5. environ' \in [Procs -> Texts]
  BY <1>2 DEF IInv, Switches, Loaded
<1>6. Switches'
  BY <1>2, <1>4, <1>5 DEF IInv, Switches
<1>7. /\ environ'[c] = (IF environ[c] = "unset" THEN dotenv ELSE environ[c])
      /\ \A p \in Procs \ {c} : environ'[p] = environ[p]
  BY <1>2 DEF Loaded, IInv, Switches
<1>8. LoopInv' /\ OrderInv' /\ IsFiniteSet(told)' /\ OrdersAreOwn'
  BY <1>2 DEF IInv, LoopInv, BatchesAccounted, OrderInv, OrdersAreOwn
<1>9. CASE UNCHANGED <<second, st, late, calls>>
  <2>1. Counters' /\ ProcInv' /\ Begun'
    BY <1>2, <1>3, <1>9 DEF IInv, Counters, ProcInv, Begun
  <2>2. LateInv'
    BY <1>2, <1>7, <1>9 DEF IInv, LateInv
  <2> QED BY <1>6, <1>8, <2>1, <2>2 DEF IInv
<1>10. ASSUME GateAdmits(seen, amount), NEW signed, Admitted(c, signed)
       PROVE  IInv'
  <2>1. environ[c] # "true"
    <3> SUFFICES ASSUME environ[c] = "true" PROVE FALSE
      OBVIOUS
    <3>1. seen.kill = TRUE
      BY DEF SnapshotOf, Engaged
    <3> HIDE DEF seen, amount
    <3>2. PythonGate(RiskLimits, seen, {Magnitude(amount)}) # "approved"
      BY <3>1, KillRefuses
    <3> QED BY <1>10, <3>2 DEF GateAdmits
  <2> HIDE DEF seen, amount
  <2>2. PICK now \in second .. MaxSecond :
          /\ second' = now
          /\ st' = [st EXCEPT ![c] =
               [pc |-> "place", snapshot |-> NoSnapshot,
                intent |-> [client |-> <<"mcp", now>>, amount |-> signed]]]
    BY <1>10 DEF Admitted
  <2>3. /\ late' = [late EXCEPT ![c] = @ + IF dotenv = "true" THEN 1 ELSE 0]
        /\ calls' = calls + 1
    BY <1>10 DEF Admitted
  <2>4. late' \in [Procs -> Nat] /\ late[c] \in Nat
        /\ late'[c] = late[c] + (IF dotenv = "true" THEN 1 ELSE 0)
        /\ \A p \in Procs \ {c} : late'[p] = late[p]
    BY <1>2, <2>3 DEF IInv, Counters
  <2>5. Counters'
    BY <1>2, <1>3, <2>2, <2>3, <2>4, Bounds DEF IInv, Counters
  <2> DEFINE r == [pc |-> "place", snapshot |-> NoSnapshot,
                   intent |-> [client |-> <<"mcp", now>>, amount |-> signed]]
  <2>6. /\ r = [pc |-> r.pc, intent |-> r.intent, snapshot |-> r.snapshot]
        /\ r.pc = "place" /\ r.intent.client # <<>> /\ r.snapshot.open = Zero
        /\ st' = [st EXCEPT ![c] = r]
    BY <2>2 DEF NoSnapshot
  <2> HIDE DEF r
  <2>7. ProcInv' /\ st'[Loop] = st[Loop]
    BY <1>2, <2>6, NothingOpen, Moves, Bounds DEF IInv
  <2>8. Begun'
    BY <1>2, <2>7 DEF IInv, Begun
  <2>9. LateInv'
    BY <1>2, <1>7, <2>1, <2>4, Bounds DEF IInv, LateInv
  <2> QED BY <1>6, <1>8, <2>5, <2>7, <2>8, <2>9 DEF IInv
<1> QED BY <1>1, <1>9, <1>10

(* The broker's and the operator's steps. *)
LEMMA FillKeeps == IInv /\ BrokerFill => IInv'
<1> SUFFICES ASSUME IInv, BrokerFill PROVE IInv'
  OBVIOUS
<1>1. PICK o \in orders : orders' = (orders \ {o}) \cup {[o EXCEPT !.filled = TRUE]}
  BY DEF BrokerFill
<1>2. UNCHANGED <<second, dotenv, environ, st, calls, loop, told, late, blind, faults>>
  BY DEF BrokerFill
<1> DEFINE n == [client |-> o.client, by |-> o.by, signed |-> o.signed,
                 filled |-> TRUE, rested |-> o.rested]
<1>3. /\ n = [client |-> n.client, by |-> n.by, signed |-> n.signed,
              filled |-> n.filled, rested |-> n.rested]
      /\ n.client = o.client /\ n.by = o.by
  OBVIOUS
<1>4. orders' = (orders \ {o}) \cup {n}
  <2>1. o = [client |-> o.client, by |-> o.by, signed |-> o.signed,
             filled |-> o.filled, rested |-> o.rested]
    BY DEF IInv, OrderInv
  <2>2. [o EXCEPT !.filled = TRUE] = n
    <3> DEFINE client == o.client
               by == o.by
               signed == o.signed
               filled == o.filled
               rested == o.rested
               value == TRUE
    <3>1. o = [client |-> client, by |-> by, signed |-> signed, filled |-> filled,
               rested |-> rested]
      BY <2>1
    <3> HIDE DEF client, by, signed, filled, rested, value
    <3>2. [o EXCEPT !.filled = value]
            = [client |-> client, by |-> by, signed |-> signed, filled |-> value,
               rested |-> rested]
      BY <3>1
    <3> QED BY <3>2 DEF client, by, signed, filled, rested, value
  <2> QED BY <1>1, <2>2
<1> HIDE DEF n
<1>5. OrderInv'
  BY <1>3, <1>4 DEF IInv, OrderInv
<1>6. OrdersAreOwn'
  <2>1. ASSUME NEW t \in told PROVE \E x \in orders' : x.by = t[1] /\ x.client = t[2]
    BY <1>3, <1>4 DEF IInv, OrdersAreOwn
  <2> QED BY <1>2, <2>1 DEF IInv, OrdersAreOwn
<1> QED BY <1>2, <1>5, <1>6
        DEF IInv, Counters, Switches, ProcInv, LoopInv, BatchesAccounted, Begun, LateInv

LEMMA SwitchKeeps == IInv /\ SetKillSwitch => IInv'
<1> SUFFICES ASSUME IInv, SetKillSwitch PROVE IInv'
  OBVIOUS
<1>1. dotenv' \in Texts
  BY DEF SetKillSwitch, Texts
<1>2. UNCHANGED <<second, environ, st, calls, loop, orders, told, late, blind, faults>>
  BY DEF SetKillSwitch
<1> QED BY <1>1, <1>2
        DEF IInv, Counters, Switches, ProcInv, LoopInv, BatchesAccounted, OrderInv,
            OrdersAreOwn, Begun, LateInv

(* The broker takes an order under an id it has not seen. *)
LEMMA AcceptKeeps ==
  ASSUME IInv, NEW p \in Procs, st[p].pc = "place", Accepted(p)
  PROVE  /\ OrderInv'
         /\ \A t \in told : \E o \in orders' : o.by = t[1] /\ o.client = t[2]
         /\ \E o \in orders' : o.by = p /\ o.client = st[p].intent.client
         /\ <<p, st[p].intent.client>> \notin told
         /\ late' \in [Procs -> Nat]
         /\ \A q \in Procs \ {Loop} : late'[q] = late[q]
         /\ late'[Loop] = late[Loop] + (IF p = Loop /\ loop.halted THEN 1 ELSE 0)
<1> DEFINE client == st[p].intent.client
<1>1. \A o \in orders : o.client # client
  BY DEF Accepted, Repeated
<1>2. PICK filled \in BOOLEAN :
        orders' = orders \cup {[client |-> client, by |-> p, signed |-> st[p].intent.amount,
                                filled |-> filled, rested |-> ~filled]}
  BY DEF Accepted
<1> DEFINE n == [client |-> client, by |-> p, signed |-> st[p].intent.amount,
                 filled |-> filled, rested |-> ~filled]
<1>3. /\ n = [client |-> n.client, by |-> n.by, signed |-> n.signed,
              filled |-> n.filled, rested |-> n.rested]
      /\ n.client = client /\ n.by = p
      /\ orders' = orders \cup {n}
  BY <1>2
<1> HIDE DEF n, client
<1>4. OrderInv'
  BY <1>1, <1>3 DEF IInv, OrderInv
<1>5. \A t \in told : \E o \in orders' : o.by = t[1] /\ o.client = t[2]
  BY <1>3 DEF IInv, OrdersAreOwn
<1>6. \E o \in orders' : o.by = p /\ o.client = client
  BY <1>3
<1>7. <<p, client>> \notin told
  BY <1>1 DEF IInv, OrdersAreOwn
<1>8. late' = [late EXCEPT ![p] = @ + IF p = Loop /\ loop.halted THEN 1 ELSE 0]
  BY DEF Accepted
<1>9. /\ late' \in [Procs -> Nat]
      /\ \A q \in Procs \ {Loop} : late'[q] = late[q]
      /\ late'[Loop] = late[Loop] + (IF p = Loop /\ loop.halted THEN 1 ELSE 0)
  BY <1>8, Bounds DEF IInv, Counters
<1> QED BY <1>4, <1>5, <1>6, <1>7, <1>9 DEF client

(* What is left of the batch, what is submitted, and nothing else changes. *)
LEMMA LoopCounts ==
  ASSUME IInv, NEW left \in 0 .. BatchSize, NEW submitted \in Nat,
         \/ loop' = [loop EXCEPT !.left = left, !.submitted = submitted]
         \/ submitted = loop.submitted /\ loop' = [loop EXCEPT !.left = left]
  PROVE  /\ LoopInv'
         /\ loop'.left = left /\ loop'.submitted = submitted
         /\ loop'.halted = loop.halted
<1>1. /\ loop'.queue = loop.queue /\ loop'.batches = loop.batches
      /\ loop'.halted = loop.halted /\ loop'.taken = loop.taken
      /\ loop'.left = left /\ loop'.submitted = submitted
      /\ loop' \in [queue : Seq(Nat), halted : BOOLEAN, batches : Nat, taken : Nat,
                    left : 0 .. BatchSize, submitted : Nat]
  BY DEF IInv, LoopInv
<1> QED BY <1>1 DEF IInv, LoopInv, BatchesAccounted

(* The caller or the loop is told. *)
LEMMA ReportKeeps ==
  ASSUME IInv, NEW p \in Procs, st[p].pc = "place", Reported(p),
         <<p, st[p].intent.client>> \notin told
  PROVE  /\ ProcInv' /\ LoopInv' /\ Begun'
         /\ IsFiniteSet(told')
         /\ told' = told \cup {<<p, st[p].intent.client>>}
         /\ loop'.submitted = Cardinality({t \in told' : t[1] = Loop})
         /\ loop'.halted = loop.halted
         /\ loop'.left = loop.left - (IF p = Loop THEN 1 ELSE 0)
<1> DEFINE new == <<p, st[p].intent.client>>
           Own == {t \in told : t[1] = Loop}
<1>1. /\ loop.left \in 0 .. BatchSize /\ loop.submitted \in Nat
      /\ IsFiniteSet(told) /\ loop.submitted = Cardinality(Own)
  BY DEF IInv, LoopInv, OrdersAreOwn
<1>2. told' = told \cup {new} /\ IsFiniteSet(told') /\ new[1] = p /\ new \notin told
  BY <1>1, FS_AddElement DEF Reported
<1>3. IsFiniteSet(Own)
  BY <1>1, FS_Subset
<1>4. CASE p = Loop
  <2>1. loop.left - 1 \in 0 .. BatchSize /\ loop.submitted + 1 \in Nat
    BY <1>1, <1>4, Bounds DEF IInv, Begun
  <2>2. loop' = [loop EXCEPT !.left = loop.left - 1, !.submitted = loop.submitted + 1]
    BY <1>4 DEF Reported
  <2>3. /\ LoopInv' /\ loop'.left = loop.left - 1
        /\ loop'.submitted = loop.submitted + 1 /\ loop'.halted = loop.halted
    BY <2>1, <2>2, LoopCounts
  <2>4. st' = [st EXCEPT ![p].pc = "batch"]
    BY <1>4 DEF Reported
  <2>5. ProcInv' /\ st'[Loop].pc = "batch"
    BY <1>4, <2>4, LoopGoes DEF IInv
  <2> HIDE DEF new
  <2>6. {t \in told' : t[1] = Loop} = Own \cup {new} /\ new \notin Own
    BY <1>2, <1>4
  <2>7. Cardinality({t \in told' : t[1] = Loop}) = loop.submitted + 1
    <3> HIDE DEF Own
    <3>1. Cardinality(Own \cup {new}) = Cardinality(Own) + 1
      BY <1>3, <2>6, FS_AddElement
    <3> QED BY <1>1, <2>6, <3>1
  <2>8. Begun'
    BY <2>5 DEF Begun
  <2> QED BY <1>2, <1>4, <2>3, <2>5, <2>7, <2>8 DEF new
<1>5. CASE p # Loop
  <2>1. loop' = loop /\ st' = [st EXCEPT ![p] = Quiet]
    BY <1>5 DEF Reported
  <2>2. ProcInv' /\ st'[Loop] = st[Loop]
    BY <1>5, <2>1, GoesQuiet, Bounds DEF IInv
  <2>3. LoopInv' /\ Begun'
    BY <2>1, <2>2 DEF IInv, LoopInv, BatchesAccounted, Begun
  <2> HIDE DEF new
  <2>4. {t \in told' : t[1] = Loop} = Own
    BY <1>2, <1>5
  <2>5. loop'.submitted = Cardinality({t \in told' : t[1] = Loop})
    BY <1>1, <2>1, <2>4
  <2>6. loop'.halted = loop.halted /\ loop'.left = loop.left - 0
    BY <1>1, <2>1, Bounds
  <2>7. told' = told \cup {<<p, st[p].intent.client>>} /\ IsFiniteSet(told')
    BY <1>2 DEF new
  <2> QED BY <1>5, <2>2, <2>3, <2>5, <2>6, <2>7
<1> QED BY <1>4, <1>5

(* The submission raises. *)
LEMMA RaiseKeeps ==
  ASSUME IInv, NEW p \in Procs, Raised(p)
  PROVE  /\ ProcInv' /\ LoopInv' /\ Begun'
         /\ loop'.submitted = loop.submitted
         /\ loop'.halted = loop.halted
         /\ loop'.left = IF p = Loop THEN 0 ELSE loop.left
<1>1. ProcInv' /\ st'[p].pc = "idle" /\ \A q \in Procs \ {p} : st'[q] = st[q]
  BY GoesQuiet DEF IInv, Raised
<1>2. CASE p = Loop
  <2>1. loop' = [loop EXCEPT !.left = 0] /\ 0 \in 0 .. BatchSize /\ loop.submitted \in Nat
    BY <1>2, Bounds DEF Raised, IInv, LoopInv
  <2>2. LoopInv' /\ loop'.left = 0 /\ loop'.submitted = loop.submitted
        /\ loop'.halted = loop.halted
    BY <2>1, LoopCounts
  <2> QED BY <1>1, <1>2, <2>2 DEF Begun
<1>3. CASE p # Loop
  <2>1. loop' = loop
    BY <1>3 DEF Raised
  <2>2. st'[Loop] = st[Loop]
    BY <1>1, <1>3, Bounds
  <2> QED BY <1>1, <1>3, <2>1, <2>2 DEF IInv, LoopInv, BatchesAccounted, Begun
<1> QED BY <1>2, <1>3

LEMMA AckedKeeps == ASSUME IInv, NEW p \in Procs, PlaceAcked(p) PROVE IInv'
<1> DEFINE client == st[p].intent.client
<1>1. /\ st[p].pc = "place" /\ Accepted(p) /\ Reported(p)
      /\ UNCHANGED <<second, dotenv, environ, calls, blind, faults>>
  BY DEF PlaceAcked
<1>2. /\ OrderInv'
      /\ \A t \in told : \E o \in orders' : o.by = t[1] /\ o.client = t[2]
      /\ \E o \in orders' : o.by = p /\ o.client = client
      /\ <<p, client>> \notin told
      /\ late' \in [Procs -> Nat]
      /\ \A q \in Procs \ {Loop} : late'[q] = late[q]
      /\ late'[Loop] = late[Loop] + (IF p = Loop /\ loop.halted THEN 1 ELSE 0)
  BY <1>1, AcceptKeeps
<1>3. /\ ProcInv' /\ LoopInv' /\ Begun'
      /\ IsFiniteSet(told') /\ told' = told \cup {<<p, client>>}
      /\ loop'.submitted = Cardinality({t \in told' : t[1] = Loop})
      /\ loop'.halted = loop.halted
      /\ loop'.left = loop.left - (IF p = Loop THEN 1 ELSE 0)
  BY <1>1, <1>2, ReportKeeps
<1> HIDE DEF client
<1>4. Counters'
  BY <1>1, <1>2 DEF IInv, Counters
<1>5. Switches'
  BY <1>1 DEF IInv, Switches
<1>6. OrdersAreOwn'
  BY <1>2, <1>3 DEF OrdersAreOwn
<1>7. LateInv'
  <2>1. \A c \in Callers : late'[c] = late[c]
    BY <1>2, Bounds
  <2>2. late[Loop] \in Nat /\ loop.left \in Nat
    BY Bounds DEF IInv, Counters, LoopInv
  <2> QED BY <1>1, <1>2, <1>3, <2>1, <2>2, Bounds DEF IInv, LateInv
<1> QED BY <1>2, <1>3, <1>4, <1>5, <1>6, <1>7 DEF IInv

LEMMA UnackedKeeps == ASSUME IInv, NEW p \in Procs, PlaceUnacked(p) PROVE IInv'
<1>1. /\ st[p].pc = "place" /\ Accepted(p) /\ Raised(p) /\ Fault
      /\ UNCHANGED <<second, dotenv, environ, calls, told, blind>>
  BY DEF PlaceUnacked
<1>2. /\ OrderInv'
      /\ \A t \in told : \E o \in orders' : o.by = t[1] /\ o.client = t[2]
      /\ late' \in [Procs -> Nat]
      /\ \A q \in Procs \ {Loop} : late'[q] = late[q]
      /\ late'[Loop] = late[Loop] + (IF p = Loop /\ loop.halted THEN 1 ELSE 0)
  BY <1>1, AcceptKeeps
<1>3. /\ ProcInv' /\ LoopInv' /\ Begun'
      /\ loop'.submitted = loop.submitted
      /\ loop'.halted = loop.halted
      /\ loop'.left = IF p = Loop THEN 0 ELSE loop.left
  BY <1>1, RaiseKeeps
<1>4. Counters'
  BY <1>1, <1>2, Bounds DEF IInv, Counters, Fault
<1>5. Switches'
  BY <1>1 DEF IInv, Switches
<1>6. OrdersAreOwn'
  BY <1>1, <1>2, <1>3 DEF IInv, OrdersAreOwn
<1>7. LateInv'
  <2>1. \A c \in Callers : late'[c] = late[c]
    BY <1>2, Bounds
  <2>2. late[Loop] \in Nat /\ loop.left \in Nat
    BY Bounds DEF IInv, Counters, LoopInv
  <2>3. p = Loop => loop.left > 0
    BY <1>1 DEF IInv, Begun
  <2> QED BY <1>1, <1>2, <1>3, <2>1, <2>2, <2>3, Bounds DEF IInv, LateInv
<1> QED BY <1>1, <1>2, <1>3, <1>4, <1>5, <1>6, <1>7 DEF IInv

LEMMA RefusedKeeps == ASSUME IInv, NEW p \in Procs, PlaceRefused(p) PROVE IInv'
<1>1. /\ Raised(p) /\ (UNCHANGED faults \/ Fault)
      /\ UNCHANGED <<second, dotenv, environ, calls, orders, told, late, blind>>
  BY DEF PlaceRefused
<1>2. /\ ProcInv' /\ LoopInv' /\ Begun'
      /\ loop'.submitted = loop.submitted
      /\ loop'.halted = loop.halted
      /\ loop'.left = IF p = Loop THEN 0 ELSE loop.left
  BY <1>1, RaiseKeeps
<1>3. Counters'
  BY <1>1, Bounds DEF IInv, Counters, Fault
<1>4. Switches' /\ OrderInv'
  BY <1>1 DEF IInv, Switches, OrderInv
<1>5. OrdersAreOwn'
  BY <1>1, <1>2 DEF IInv, OrdersAreOwn
<1>6. LateInv'
  <2>1. late[Loop] \in Nat /\ loop.left \in Nat
    BY Bounds DEF IInv, Counters, LoopInv
  <2> QED BY <1>1, <1>2, <2>1, Bounds DEF IInv, LateInv
<1> QED BY <1>1, <1>2, <1>3, <1>4, <1>5, <1>6 DEF IInv

LEMMA NextIInv == IInv /\ [Next]_vars => IInv'
<1> SUFFICES ASSUME IInv, [Next]_vars PROVE IInv'
  OBVIOUS
<1>1. CASE UNCHANGED vars
  BY <1>1 DEF vars, IInv, Counters, Switches, ProcInv, LoopInv, BatchesAccounted,
              OrderInv, OrdersAreOwn, Begun, LateInv
<1>2. CASE Next
  BY <1>2, CallKeeps, AckedKeeps, UnackedKeeps, RefusedKeeps, PushKeeps, HaltKeeps,
     LoopSnapshotKeeps, ProcessKeeps, IntentKeeps, FillKeeps, SwitchKeeps DEF Next
<1> QED BY <1>1, <1>2

LEMMA Invariance == Spec => []IInv
BY InitIInv, NextIInv, PTL DEF Spec

-----------------------------------------------------------------------------
(* THEOREMS *)

(* No gate decides on negative positions, the queue stays in its bound,    *)
(* and the broker holds one order per client order id.                     *)
THEOREM TypeCorrectness == Spec => []TypeOK
<1>1. IInv => TypeOK
  <2> SUFFICES ASSUME IInv PROVE TypeOK
    OBVIOUS
  <2>1. loop.left \in 0 .. BatchSize /\ Len(loop.queue) <= MaxQueue
    BY DEF IInv, LoopInv
  <2> QED BY <2>1 DEF IInv, Counters, Switches, ProcInv, OrderInv, TypeOK
<1> QED BY <1>1, Invariance, PTL

(* What was reported as submitted is an order of the process it was        *)
(* reported to, also when several callers draw one client order id, and    *)
(* the loop counts exactly the orders it was told of.                      *)
THEOREM OwnOrders == Spec => []OrdersAreOwn
<1>1. IInv => OrdersAreOwn
  BY DEF IInv
<1> QED BY <1>1, Invariance, PTL

(* No accepted batch is lost from the queue or overtaken. *)
THEOREM Batches == Spec => []BatchesAccounted
<1>1. IInv => BatchesAccounted
  BY DEF IInv, LoopInv
<1> QED BY <1>1, Invariance, PTL

(* After .env says stop, a caller that has no earlier value of the file    *)
(* lets at most one more call pass its gate; after halt() the loop places  *)
(* at most the rest of one batch.                                          *)
THEOREM LateOrders == Spec => []LateOrdersBounded
<1>1. IInv => LateOrdersBounded
  <2> SUFFICES ASSUME IInv PROVE LateOrdersBounded
    OBVIOUS
  <2>1. late[Loop] \in Nat /\ loop.left \in Nat /\ late[Loop] <= BatchSize
    BY Bounds DEF IInv, Counters, LoopInv, LateInv
  <2>2. ASSUME NEW c \in Callers PROVE late[c] <= 1 \/ environ[c] = "false"
    <3>1. environ[c] \in {"unset", "false", "true"}
      BY Bounds DEF IInv, Switches, Texts
    <3> QED BY <3>1 DEF IInv, LateInv
  <2> QED BY <2>1, <2>2 DEF LateOrdersBounded
<1> QED BY <1>1, Invariance, PTL

-----------------------------------------------------------------------------
(* THE OVERRUN                                                             *)
(*                                                                         *)
(* What is open and what may still be placed is weighed together: filled   *)
(* orders with their sign, orders that have not filled with their size,    *)
(* less the orders that rested; the intents of the callers that have       *)
(* passed their gate; and for every intent left of the loop's batch the    *)
(* most that its snapshot admits, if it admits any of them.  Placing an order moves its amount from the intents *)
(* to the orders, so that only a decision of a gate adds to the whole, and *)
(* a gate that sees the positions knows of all but the intents of others.  *)

(* The limits are finite numbers: those of an infinite or undefined        *)
(* setting bound nothing.                                                  *)
FiniteLimits ==
  \E order, open \in Nat :
    RiskLimits.order = {order} /\ RiskLimits.open = {open} /\ open < Infinity

OrderLimit == Number(RiskLimits.order)
OpenLimit == Number(RiskLimits.open)

Exposed(o) ==
  (IF o.filled THEN o.signed ELSE Magnitude(o.signed))
    - (IF o.rested THEN Magnitude(o.signed) ELSE 0)
Worth(O) == SumFunctionOnSet([o \in O |-> Exposed(o)], O)
Due(x) == IF x.pc = "place" THEN Magnitude(x.intent.amount) ELSE 0
CallersDue(s) == SumFunctionOnSet([c \in Callers |-> Due(s[c])], Callers)
ByLoop(amount) == \E i \in 1 .. BatchSize : amount \in LoopAmounts[i]
AdmitsSome(snapshot) == \E amount \in Nat : ByLoop(amount) /\ GateAdmits(snapshot, amount)
Room(snapshot) == OpenLimit - Number(snapshot.open)
Share(snapshot) == IF Room(snapshot) < OrderLimit THEN Room(snapshot) ELSE OrderLimit
LoopDue(x, left) ==
  IF x.pc = "idle" \/ ~AdmitsSome(x.snapshot) THEN 0
  ELSE (IF x.pc = "ready" THEN BatchSize ELSE left) * Share(x.snapshot)

OrdersOk(O) ==
  /\ IsFiniteSet(O)
  /\ \A o \in O : /\ o.signed \in Int /\ o.filled \in BOOLEAN /\ o.rested \in BOOLEAN
                  /\ o.filled \/ o.rested
CallerOk(x) ==
  /\ x.pc \in {"idle", "place"}
  /\ x.pc = "place" => x.intent.amount \in Int /\ Magnitude(x.intent.amount) <= OrderLimit
LoopOk(x) ==
  /\ x.pc # "idle" => \E p \in Int : x.snapshot.open = {p}
  /\ x.pc = "place" => ByLoop(x.intent.amount) /\ GateAdmits(x.snapshot, x.intent.amount)

Sound ==
  /\ OrdersOk(orders)
  /\ \A c \in Callers : CallerOk(st[c])
  /\ LoopOk(st[Loop])
Within ==
  ~blind =>
    Worth(orders) + CallersDue(st) + LoopDue(st[Loop], loop.left)
      <= OpenLimit + (Cardinality(Callers) + BatchSize - 1) * OrderLimit

LEMMA LimitsAre ==
  ASSUME FiniteLimits
  PROVE  /\ OrderLimit \in Nat /\ OpenLimit \in Nat /\ OpenLimit < Infinity
         /\ RiskLimits.order = {OrderLimit} /\ RiskLimits.open = {OpenLimit}
BY DEF FiniteLimits, OrderLimit, OpenLimit, Number

LEMMA MagnitudeIs ==
  ASSUME NEW a \in Int
  PROVE  Magnitude(a) \in Nat /\ a <= Magnitude(a) /\ Magnitude(0 - a) = Magnitude(a)
BY DEF Magnitude

(* What a gate that admits knows. *)
LEMMA AdmitsOne ==
  ASSUME FiniteLimits, NEW snapshot, NEW a \in Int, GateAdmits(snapshot, a)
  PROVE  Magnitude(a) <= OrderLimit
<1> DEFINE m == Magnitude(a)
<1>1. m \in Nat
  BY MagnitudeIs
<1>2. PythonGate(RiskLimits, snapshot, {m}) = "approved"
  BY DEF GateAdmits
<1> HIDE DEF m
<1>3. ~Less(RiskLimits.order, {m})
  BY <1>2, GatePasses
<1>4. m <= OrderLimit
  BY <1>1, <1>3, LimitsAre DEF Less
<1> QED BY <1>4 DEF m

LEMMA AdmitsOpen ==
  ASSUME FiniteLimits, NEW snapshot, NEW a \in Int, NEW p \in Int,
         snapshot.open = {p}, GateAdmits(snapshot, a)
  PROVE  p + Magnitude(a) <= OpenLimit
<1> DEFINE m == Magnitude(a)
<1>1. m \in Nat
  BY MagnitudeIs
<1>2. PythonGate(RiskLimits, snapshot, {m}) = "approved"
  BY DEF GateAdmits
<1> HIDE DEF m
<1>3. ~Less(RiskLimits.open, Plus({p}, {m}))
  BY <1>2, GatePasses
<1>4. Plus({p}, {m}) = {IF Infinity \in {p, m} THEN Infinity ELSE p + m}
  BY DEF Plus
<1>5. Infinity \in Nat
  BY InfinityAssumption
<1>6. p + m <= OpenLimit
  <2>1. CASE Infinity \in {p, m}
    <3>1. Plus({p}, {m}) = {Infinity}
      BY <1>4, <2>1
    <3> QED BY <1>3, <1>5, <3>1, LimitsAre DEF Less
  <2>2. CASE Infinity \notin {p, m}
    <3>1. Plus({p}, {m}) = {p + m}
      BY <1>4, <2>2
    <3>2. ~(OpenLimit < p + m)
      BY <1>3, <3>1, LimitsAre DEF Less
    <3> QED BY <1>1, <3>2, LimitsAre
  <2> QED BY <2>1, <2>2
<1> QED BY <1>6 DEF m

(* The numbers that are added up. *)
LEMMA ExposedIs ==
  ASSUME NEW o, o.signed \in Int, o.filled \in BOOLEAN, o.rested \in BOOLEAN,
         o.filled \/ o.rested
  PROVE  /\ Exposed(o) \in Int
         /\ Exposed(o) <= IF o.filled THEN o.signed ELSE 0
         /\ (IF o.filled THEN o.signed ELSE 0)
              <= Exposed(o) + (IF o.rested THEN Magnitude(o.signed) ELSE 0)
         /\ Exposed(o) <= Magnitude(o.signed)
         /\ o.rested => Exposed(o) <= 0
<1> DEFINE a == o.signed
           m == Magnitude(o.signed)
<1>1. a \in Int /\ m \in Nat /\ a <= m
  BY MagnitudeIs
<1>2. Exposed(o) = (IF o.filled THEN a ELSE m) - (IF o.rested THEN m ELSE 0)
  BY DEF Exposed
<1> HIDE DEF a, m
<1>3. CASE o.filled /\ o.rested
  <2>1. Exposed(o) = a - m
    BY <1>2, <1>3
  <2> QED BY <1>1, <1>3, <2>1 DEF a, m
<1>4. CASE o.filled /\ ~o.rested
  <2>1. Exposed(o) = a - 0
    BY <1>2, <1>4
  <2> QED BY <1>1, <1>4, <2>1 DEF a, m
<1>5. CASE ~o.filled /\ o.rested
  <2>1. Exposed(o) = m - m
    BY <1>2, <1>5
  <2> QED BY <1>1, <1>5, <2>1 DEF a, m
<1> QED BY <1>3, <1>4, <1>5

LEMMA WorthIs == ASSUME NEW O, OrdersOk(O) PROVE Worth(O) \in Int
<1>1. [o \in O |-> Exposed(o)] \in [O -> Int]
  BY ExposedIs DEF OrdersOk
<1> QED BY <1>1, SumType DEF Worth, OrdersOk

(* The positions add up the filled orders, as if the others were nothing. *)
LEMMA PositionsAre ==
  ASSUME OrdersOk(orders)
  PROVE  /\ [o \in orders |-> IF o.filled THEN o.signed ELSE 0] \in [orders -> Int]
         /\ Positions = SumFunctionOnSet(
                          [o \in orders |-> IF o.filled THEN o.signed ELSE 0], orders)
         /\ Positions \in Int
<1> DEFINE F == {x \in orders : x.filled}
           f == [o \in F |-> o.signed]
           g == [o \in orders |-> IF o.filled THEN o.signed ELSE 0]
<1>1. g \in [orders -> Int] /\ F \in SUBSET orders /\ IsFiniteSet(orders)
  BY DEF OrdersOk
<1>2. IsFiniteSet(F)
  BY <1>1, FS_Subset
<1>3. (\A o \in orders \ F : g[o] = 0) /\ (\A o \in F : f[o] = g[o])
  OBVIOUS
<1>4. DOMAIN f = F
  OBVIOUS
<1>5. Positions = SumFunctionOnSet(f, F)
  BY <1>4 DEF Positions, SumFunction
<1> HIDE DEF F, f, g
<1>6. SumFunctionOnSet(g, orders) = SumFunctionOnSet(g, F)
  BY <1>1, <1>3, SumZeros
<1>7. SumFunctionOnSet(f, F) = SumFunctionOnSet(g, F)
  BY <1>2, <1>3, SumSame
<1>8. SumFunctionOnSet(g, orders) \in Int
  BY <1>1, SumType
<1> QED BY <1>1, <1>5, <1>6, <1>7, <1>8 DEF g

LEMMA RestedAre ==
  ASSUME OrdersOk(orders)
  PROVE  /\ [o \in orders |-> IF o.rested THEN Magnitude(o.signed) ELSE 0]
              \in [orders -> Int]
         /\ SumFunction([o \in {x \in orders : x.rested} |-> Magnitude(o.signed)])
              = SumFunctionOnSet(
                  [o \in orders |-> IF o.rested THEN Magnitude(o.signed) ELSE 0], orders)
<1> DEFINE F == {x \in orders : x.rested}
           f == [o \in F |-> Magnitude(o.signed)]
           g == [o \in orders |-> IF o.rested THEN Magnitude(o.signed) ELSE 0]
<1>1. g \in [orders -> Int] /\ F \in SUBSET orders /\ IsFiniteSet(orders)
  BY MagnitudeIs DEF OrdersOk
<1>2. IsFiniteSet(F)
  BY <1>1, FS_Subset
<1>3. (\A o \in orders \ F : g[o] = 0) /\ (\A o \in F : f[o] = g[o])
  OBVIOUS
<1>4. SumFunction(f) = SumFunctionOnSet(f, F)
  BY DEF SumFunction
<1> HIDE DEF F, f, g
<1>5. SumFunctionOnSet(g, orders) = SumFunctionOnSet(g, F)
  BY <1>1, <1>3, SumZeros
<1>6. SumFunctionOnSet(f, F) = SumFunctionOnSet(g, F)
  BY <1>2, <1>3, SumSame
<1> QED BY <1>1, <1>4, <1>5, <1>6 DEF f, g, F

(* What is weighed is no more than the positions, and the positions are no *)
(* more than it and the orders that rested.                                *)
LEMMA WorthAndPositions ==
  ASSUME OrdersOk(orders)
  PROVE  /\ Worth(orders) <= Positions
         /\ Positions <= Worth(orders)
              + SumFunction([o \in {x \in orders : x.rested} |-> Magnitude(o.signed)])
         /\ SumFunction([o \in {x \in orders : x.rested} |-> Magnitude(o.signed)]) \in Int
<1> DEFINE e == [o \in orders |-> Exposed(o)]
           g == [o \in orders |-> IF o.filled THEN o.signed ELSE 0]
           r == [o \in orders |-> IF o.rested THEN Magnitude(o.signed) ELSE 0]
           h == [o \in orders |-> e[o] + r[o]]
<1>1. IsFiniteSet(orders) /\ g \in [orders -> Int] /\ r \in [orders -> Int]
      /\ Positions = SumFunctionOnSet(g, orders)
      /\ SumFunction([o \in {x \in orders : x.rested} |-> Magnitude(o.signed)])
           = SumFunctionOnSet(r, orders)
  BY PositionsAre, RestedAre DEF OrdersOk
<1>2. e \in [orders -> Int]
  BY ExposedIs DEF OrdersOk
<1>3. h \in [orders -> Int] /\ \A o \in orders : h[o] = e[o] + r[o]
  BY <1>1, <1>2
<1>4. ASSUME NEW o \in orders PROVE e[o] <= g[o] /\ g[o] <= h[o]
  <2>1. /\ Exposed(o) <= IF o.filled THEN o.signed ELSE 0
        /\ (IF o.filled THEN o.signed ELSE 0)
             <= Exposed(o) + (IF o.rested THEN Magnitude(o.signed) ELSE 0)
    BY ExposedIs DEF OrdersOk
  <2> QED BY <2>1
<1>5. Worth(orders) = SumFunctionOnSet(e, orders)
  BY DEF Worth
<1> HIDE DEF e, g, r, h
<1>6. SumFunctionOnSet(e, orders) <= SumFunctionOnSet(g, orders)
  BY <1>1, <1>2, <1>4, SumMonotone
<1>7. SumFunctionOnSet(g, orders) <= SumFunctionOnSet(h, orders)
  BY <1>1, <1>3, <1>4, SumMonotone
<1>8. SumFunctionOnSet(h, orders) = SumFunctionOnSet(e, orders) + SumFunctionOnSet(r, orders)
  BY <1>1, <1>2, <1>3, SumPlus
<1>9. SumFunctionOnSet(r, orders) \in Int
  BY <1>1, SumType
<1> QED BY <1>1, <1>5, <1>6, <1>7, <1>8, <1>9

(* A new order adds at most its size, and nothing when it rests. *)
LEMMA WorthOfNew ==
  ASSUME NEW O, OrdersOk(O), NEW o, o \notin O, o.signed \in Int,
         o.filled \in BOOLEAN, o.rested \in BOOLEAN, o.filled \/ o.rested
  PROVE  OrdersOk(O \cup {o}) /\ Worth(O \cup {o}) = Exposed(o) + Worth(O)
<1> DEFINE f == [x \in O \cup {o} |-> Exposed(x)]
           g == [x \in O |-> Exposed(x)]
<1>1. OrdersOk(O \cup {o})
  BY FS_AddElement DEF OrdersOk
<1>2. f \in [O \cup {o} -> Int] /\ IsFiniteSet(O)
  BY <1>1, ExposedIs DEF OrdersOk
<1>3. f[o] = Exposed(o) /\ \A x \in O : f[x] = g[x]
  OBVIOUS
<1>4. Worth(O \cup {o}) = SumFunctionOnSet(f, O \cup {o}) /\ Worth(O) = SumFunctionOnSet(g, O)
  BY DEF Worth
<1> HIDE DEF f, g
<1>5. SumFunctionOnSet(f, O \cup {o}) = f[o] + SumFunctionOnSet(f, O)
  BY <1>2, SumAdd
<1>6. SumFunctionOnSet(f, O) = SumFunctionOnSet(g, O)
  BY <1>2, <1>3, SumSame
<1> QED BY <1>1, <1>3, <1>4, <1>5, <1>6

LEMMA WorthWithout ==
  ASSUME NEW O, OrdersOk(O), NEW o \in O
  PROVE  OrdersOk(O \ {o}) /\ Worth(O) = Exposed(o) + Worth(O \ {o})
<1>1. OrdersOk(O \ {o})
  BY FS_Subset DEF OrdersOk
<1>2. (O \ {o}) \cup {o} = O /\ o \notin O \ {o}
  OBVIOUS
<1>3. /\ o.signed \in Int /\ o.filled \in BOOLEAN /\ o.rested \in BOOLEAN
      /\ o.filled \/ o.rested
  BY DEF OrdersOk
<1> DEFINE R == O \ {o}
<1>4. OrdersOk(R) /\ o \notin R /\ R \cup {o} = O
  BY <1>1, <1>2
<1> HIDE DEF R
<1>5. Worth(R \cup {o}) = Exposed(o) + Worth(R)
  BY <1>3, <1>4, WorthOfNew
<1> QED BY <1>1, <1>4, <1>5 DEF R

(* The intents of the callers. *)
LEMMA DueIs ==
  ASSUME NEW x, CallerOk(x), FiniteLimits
  PROVE  Due(x) \in Nat /\ Due(x) <= OrderLimit
BY LimitsAre, MagnitudeIs DEF Due, CallerOk

LEMMA CallersDueIs ==
  ASSUME NEW s, \A c \in Callers : CallerOk(s[c]), FiniteLimits
  PROVE  /\ CallersDue(s) \in Nat
         /\ CallersDue(s) <= Cardinality(Callers) * OrderLimit
<1> DEFINE f == [c \in Callers |-> Due(s[c])]
<1>1. f \in [Callers -> Nat] /\ f \in [Callers -> Int] /\ \A c \in Callers : f[c] <= OrderLimit
  BY DueIs
<1>2. CallersDue(s) = SumFunctionOnSet(f, Callers)
  BY DEF CallersDue
<1>3. IsFiniteSet(Callers) /\ OrderLimit \in Int
  BY PaperAssumption, LimitsAre
<1> HIDE DEF f
<1> QED BY <1>1, <1>2, <1>3, SumNat, SumBound

LEMMA CallersDueSame ==
  ASSUME NEW s, NEW t, \A c \in Callers : t[c] = s[c]
  PROVE  CallersDue(t) = CallersDue(s)
<1> DEFINE f == [c \in Callers |-> Due(s[c])]
           g == [c \in Callers |-> Due(t[c])]
<1>1. f = g
  OBVIOUS
<1> QED BY <1>1 DEF CallersDue

(* One caller moves. *)
LEMMA CallersDueMoves ==
  ASSUME NEW s, \A c \in Callers : CallerOk(s[c]), FiniteLimits,
         NEW c \in Callers, NEW t, CallerOk(t[c]), \A d \in Callers \ {c} : t[d] = s[d]
  PROVE  /\ CallersDue(t) = CallersDue(s) - Due(s[c]) + Due(t[c])
         /\ CallersDue(t) <= (Cardinality(Callers) - 1) * OrderLimit + Due(t[c])
<1> DEFINE f == [d \in Callers |-> Due(s[d])]
           g == [d \in Callers |-> Due(t[d])]
           R == Callers \ {c}
           h == [d \in R |-> Due(t[d])]
<1>1. \A d \in Callers : CallerOk(t[d])
  OBVIOUS
<1>2. f \in [Callers -> Int] /\ g \in [Callers -> Int] /\ h \in [R -> Int]
  BY <1>1, DueIs
<1>3. \A d \in Callers \ {c} : f[d] = g[d]
  OBVIOUS
<1>4. \A d \in R : h[d] = g[d] /\ h[d] <= OrderLimit
  BY <1>1, DueIs
<1>5. f[c] = Due(s[c]) /\ g[c] = Due(t[c])
  OBVIOUS
<1>6. /\ CallersDue(s) = SumFunctionOnSet(f, Callers)
      /\ CallersDue(t) = SumFunctionOnSet(g, Callers)
  BY DEF CallersDue
<1>7. IsFiniteSet(Callers) /\ IsFiniteSet(R) /\ OrderLimit \in Int
      /\ Cardinality(R) = Cardinality(Callers) - 1
  BY PaperAssumption, LimitsAre, FS_RemoveElement
<1> HIDE DEF f, g, h
<1>8. SumFunctionOnSet(g, Callers) = SumFunctionOnSet(f, Callers) - f[c] + g[c]
  BY <1>2, <1>3, <1>7, SumUpdate
<1>9. SumFunctionOnSet(g, Callers) = g[c] + SumFunctionOnSet(g, R)
  BY <1>2, <1>7, SumRemove
<1>10. SumFunctionOnSet(h, R) = SumFunctionOnSet(g, R)
  <2> HIDE DEF R
  <2> QED BY <1>4, <1>7, SumSame
<1>11. SumFunctionOnSet(h, R) <= Cardinality(R) * OrderLimit /\ SumFunctionOnSet(h, R) \in Int
  <2> HIDE DEF R
  <2> QED BY <1>2, <1>4, <1>7, SumBound, SumType
<1>12. g[c] \in Int
  BY <1>2
<1> DEFINE b == (Cardinality(Callers) - 1) * OrderLimit
<1>13. b \in Int /\ SumFunctionOnSet(h, R) <= b
  <2>1. Cardinality(Callers) \in Int
    BY <1>7, FS_CardinalityType
  <2> QED BY <1>7, <1>11, <2>1
<1> HIDE DEF b
<1>14. SumFunctionOnSet(g, Callers) <= b + g[c]
  BY <1>9, <1>10, <1>11, <1>12, <1>13
<1> QED BY <1>5, <1>6, <1>8, <1>14 DEF b

(* What is left of the batch. *)
LEMMA AtMostABatch ==
  ASSUME NEW n \in Nat, NEW b \in Nat, n <= b, NEW a \in Nat, NEW k \in Nat, a <= k
  PROVE  n * a \in Nat /\ n * a <= b * k
<1>1. PICK d \in Nat : b = n + d
  <2>1. b - n \in Nat /\ b = n + (b - n)
    OBVIOUS
  <2> QED BY <2>1
<1>2. PICK e \in Nat : k = a + e
  <2>1. k - a \in Nat /\ k = a + (k - a)
    OBVIOUS
  <2> QED BY <2>1
<1>3. b * k = n * a + n * e + d * a + d * e
  BY <1>1, <1>2
<1>4. n * a \in Nat /\ n * e \in Nat /\ d * a \in Nat /\ d * e \in Nat
  OBVIOUS
<1> QED BY <1>3, <1>4

LEMMA LoopAmountIs ==
  ASSUME NEW amount, ByLoop(amount)
  PROVE  amount \in Nat /\ amount > 0 /\ Magnitude(amount) = amount
<1>1. amount \in Nat \ {0}
  BY PaperAssumption DEF ByLoop
<1> QED BY <1>1 DEF Magnitude

(* An intent that a snapshot admits is no more than its share. *)
LEMMA ShareIs ==
  ASSUME FiniteLimits, NEW snapshot, NEW p \in Int, snapshot.open = {p}
  PROVE  /\ Share(snapshot) \in Int /\ Share(snapshot) <= OrderLimit
         /\ p + Share(snapshot) <= OpenLimit
         /\ \A amount : ByLoop(amount) /\ GateAdmits(snapshot, amount)
                        => amount <= Share(snapshot)
         /\ AdmitsSome(snapshot) => Share(snapshot) \in Nat
<1>1. Number(snapshot.open) = p
  BY DEF Number
<1>2. Room(snapshot) = OpenLimit - p /\ OpenLimit \in Nat /\ OrderLimit \in Nat
  BY <1>1, LimitsAre DEF Room
<1>3. ASSUME NEW amount, ByLoop(amount), GateAdmits(snapshot, amount)
      PROVE  amount \in Nat /\ amount <= Share(snapshot)
  <2>1. amount \in Nat /\ Magnitude(amount) = amount
    BY <1>3, LoopAmountIs
  <2>2. amount <= OrderLimit /\ p + amount <= OpenLimit
    BY <1>3, <2>1, AdmitsOne, AdmitsOpen
  <2> QED BY <1>2, <2>1, <2>2 DEF Share
<1>4. /\ Share(snapshot) \in Int /\ Share(snapshot) <= OrderLimit
      /\ p + Share(snapshot) <= OpenLimit
  BY <1>2 DEF Share
<1>5. ASSUME AdmitsSome(snapshot) PROVE Share(snapshot) \in Nat
  <2>1. PICK amount \in Nat : ByLoop(amount) /\ GateAdmits(snapshot, amount)
    BY <1>5 DEF AdmitsSome
  <2>2. amount <= Share(snapshot)
    BY <1>3, <2>1
  <2> QED BY <1>4, <2>2
<1> QED BY <1>3, <1>4, <1>5

LEMMA LoopDueIs ==
  ASSUME FiniteLimits, NEW x, LoopOk(x), NEW left \in 0 .. BatchSize
  PROVE  /\ LoopDue(x, left) \in Nat
         /\ LoopDue(x, left) <= BatchSize * OrderLimit
<1>1. BatchSize \in Nat /\ left \in Nat /\ left <= BatchSize /\ OrderLimit \in Nat
      /\ BatchSize * OrderLimit \in Nat
  BY Bounds, LimitsAre
<1>2. CASE x.pc = "idle" \/ ~AdmitsSome(x.snapshot)
  <2>1. LoopDue(x, left) = 0
    BY <1>2 DEF LoopDue
  <2> QED BY <1>1, <2>1
<1>3. CASE x.pc # "idle" /\ AdmitsSome(x.snapshot)
  <2> DEFINE share == Share(x.snapshot)
  <2>1. share \in Nat /\ share <= OrderLimit
    BY <1>3, ShareIs DEF LoopOk
  <2>2. LoopDue(x, left) = (IF x.pc = "ready" THEN BatchSize ELSE left) * share
    BY <1>3 DEF LoopDue
  <2> HIDE DEF share
  <2>3. /\ left * share \in Nat /\ left * share <= BatchSize * OrderLimit
        /\ BatchSize * share \in Nat /\ BatchSize * share <= BatchSize * OrderLimit
    BY <1>1, <2>1, AtMostABatch
  <2> QED BY <2>2, <2>3
<1> QED BY <1>2, <1>3

(* One intent less is left. *)
LEMMA LoopDueLess ==
  ASSUME FiniteLimits, NEW x, NEW y, LoopOk(x), NEW left \in 1 .. BatchSize,
         x.pc \in {"batch", "place"}, y.pc = "batch", y.snapshot = x.snapshot
  PROVE  /\ LoopDue(y, left - 1) <= LoopDue(x, left)
         /\ \A amount : ByLoop(amount) /\ GateAdmits(x.snapshot, amount)
                        => LoopDue(y, left - 1) <= LoopDue(x, left) - amount
<1> DEFINE share == Share(x.snapshot)
<1>1. CASE ~AdmitsSome(x.snapshot)
  <2>1. LoopDue(y, left - 1) = 0 /\ LoopDue(x, left) = 0
    BY <1>1 DEF LoopDue
  <2>2. \A amount : ~(ByLoop(amount) /\ GateAdmits(x.snapshot, amount))
    BY <1>1, LoopAmountIs DEF AdmitsSome
  <2> QED BY <2>1, <2>2
<1>2. CASE AdmitsSome(x.snapshot)
  <2>1. /\ share \in Nat
        /\ \A amount : ByLoop(amount) /\ GateAdmits(x.snapshot, amount) => amount <= share
    BY <1>2, ShareIs DEF LoopOk
  <2>2. LoopDue(y, left - 1) = (left - 1) * share /\ LoopDue(x, left) = left * share
    BY <1>2 DEF LoopDue
  <2>3. \A amount : ByLoop(amount) => amount \in Nat
    BY LoopAmountIs
  <2> HIDE DEF share
  <2>4. left \in Nat /\ left - 1 \in Nat
    BY Bounds
  <2>5. /\ left * share \in Nat /\ (left - 1) * share \in Nat
        /\ (left - 1) * share = left * share - share
    BY <2>1, <2>4
  <2> QED BY <2>1, <2>2, <2>3, <2>5
<1> QED BY <1>1, <1>2

OverInv == Sound /\ Within

Whole == Worth(orders) + CallersDue(st) + LoopDue(st[Loop], loop.left)

(* A step that does not add to the whole. *)
LEMMA AddsNothing ==
  ASSUME FiniteLimits, OverInv, Sound', blind => blind', Whole' <= Whole,
         Whole \in Int, Whole' \in Int
  PROVE  OverInv'
<1> DEFINE limit == OpenLimit + (Cardinality(Callers) + BatchSize - 1) * OrderLimit
<1>1. ~blind' => Whole <= limit
  BY DEF OverInv, Within, Whole
<1>2. limit \in Int
  BY LimitsAre, Bounds, PaperAssumption, FS_CardinalityType
<1> HIDE DEF limit
<1>3. ~blind' => Whole' <= limit
  BY <1>1, <1>2
<1>4. Within'
  BY <1>3 DEF Within, Whole, limit
<1> QED BY <1>4 DEF OverInv

LEMMA WholeIs ==
  ASSUME FiniteLimits, Sound, loop.left \in 0 .. BatchSize
  PROVE  /\ Worth(orders) \in Int /\ CallersDue(st) \in Nat
         /\ LoopDue(st[Loop], loop.left) \in Nat /\ Whole \in Int
<1>1. Worth(orders) \in Int /\ CallersDue(st) \in Nat
      /\ LoopDue(st[Loop], loop.left) \in Nat
  BY WorthIs, CallersDueIs, LoopDueIs DEF Sound
<1> QED BY <1>1 DEF Whole

LEMMA WholeIsThen ==
  ASSUME FiniteLimits, Sound', loop'.left \in 0 .. BatchSize
  PROVE  /\ Worth(orders') \in Int /\ CallersDue(st') \in Int
         /\ LoopDue(st'[Loop], loop'.left) \in Nat /\ Whole' \in Int
<1>1. Worth(orders') \in Int /\ CallersDue(st') \in Int
      /\ LoopDue(st'[Loop], loop'.left) \in Nat
  <2>1. OrdersOk(orders') /\ (\A c \in Callers : CallerOk(st'[c])) /\ LoopOk(st'[Loop])
    BY DEF Sound
  <2> QED BY <2>1, WorthIs, CallersDueIs, LoopDueIs
<1> QED BY <1>1 DEF Whole

LEMMA InitOver == ASSUME FiniteLimits, Init PROVE OverInv
<1>1. orders = {} /\ Worth({}) = 0
  BY SumEmpty DEF Init, Worth
<1>2. \A p \in Procs : st[p].pc = "idle"
  BY DEF Init, Quiet
<1>3. Sound
  BY <1>1, <1>2, Bounds, FS_EmptySet DEF Sound, OrdersOk, CallerOk, LoopOk
<1>4. CallersDue(st) = 0
  <2> DEFINE f == [c \in Callers |-> Due(st[c])]
  <2>1. f \in [Callers -> Int] /\ \A c \in Callers : f[c] = 0
    BY <1>2, Bounds DEF Due
  <2>2. CallersDue(st) = SumFunctionOnSet(f, Callers)
    BY DEF CallersDue
  <2> HIDE DEF f
  <2>3. SumFunctionOnSet(f, Callers) = SumFunctionOnSet(f, {})
    BY <2>1, PaperAssumption, SumZeros
  <2> QED BY <2>2, <2>3, SumEmpty
<1>5. LoopDue(st[Loop], loop.left) = 0
  BY <1>2, Bounds DEF LoopDue
<1> DEFINE c == Cardinality(Callers)
<1>6. c \in Nat /\ BatchSize \in Nat /\ BatchSize > 0 /\ OrderLimit \in Nat /\ OpenLimit \in Nat
  BY PaperAssumption, FS_CardinalityType, Bounds, LimitsAre
<1> HIDE DEF c
<1>7. 0 <= OpenLimit + (c + BatchSize - 1) * OrderLimit
  <2>1. c + BatchSize - 1 \in Nat
    BY <1>6
  <2>2. (c + BatchSize - 1) * OrderLimit \in Nat
    BY <1>6, <2>1
  <2> QED BY <1>6, <2>2
<1>8. Within
  BY <1>1, <1>4, <1>5, <1>7 DEF Within, c
<1> QED BY <1>3, <1>8 DEF OverInv

LEMMA StillOver ==
  ASSUME OverInv, st' = st, orders' = orders, loop'.left = loop.left, blind => blind'
  PROVE  OverInv'
BY DEF OverInv, Sound, Within

(* A resting order fills: its size was counted, its sign is no more. *)
LEMMA FillOver == ASSUME FiniteLimits, IInv, IInv', OverInv, BrokerFill PROVE OverInv'
<1>1. PICK o \in orders :
        ~o.filled /\ orders' = (orders \ {o}) \cup {[o EXCEPT !.filled = TRUE]}
  BY DEF BrokerFill
<1>2. UNCHANGED <<st, loop, blind>>
  BY DEF BrokerFill
<1> DEFINE n == [o EXCEPT !.filled = TRUE]
           R == orders \ {o}
<1>3. OrdersOk(orders) /\ o.signed \in Int /\ o.rested = TRUE
  BY <1>1 DEF OverInv, Sound, OrdersOk
<1>4. /\ n.client = o.client /\ n.signed = o.signed /\ n.rested = o.rested
      /\ n.filled = TRUE
  <2>1. o = [client |-> o.client, by |-> o.by, signed |-> o.signed,
             filled |-> o.filled, rested |-> o.rested]
    BY DEF IInv, OrderInv
  <2> QED BY <2>1
<1>5. n \notin R
  <2> HIDE DEF n
  <2> QED BY <1>4 DEF IInv, OrderInv
<1>6. orders' = R \cup {n}
  BY <1>1
<1> HIDE DEF n
<1>7. OrdersOk(R) /\ Worth(orders) = Exposed(o) + Worth(R)
  BY <1>3, WorthWithout
<1> HIDE DEF R
<1>8. OrdersOk(orders') /\ Worth(orders') = Exposed(n) + Worth(R)
  BY <1>3, <1>4, <1>5, <1>6, <1>7, WorthOfNew
<1>9. Exposed(n) \in Int /\ Exposed(n) <= Exposed(o) /\ Exposed(o) \in Int
  <2> DEFINE a == o.signed
             m == Magnitude(o.signed)
  <2>1. a \in Int /\ m \in Nat /\ a <= m
    BY <1>3, MagnitudeIs
  <2>2. Exposed(n) = a - m /\ Exposed(o) = m - m
    BY <1>1, <1>3, <1>4 DEF Exposed
  <2> HIDE DEF a, m
  <2> QED BY <2>1, <2>2
<1>10. Sound'
  BY <1>2, <1>8 DEF OverInv, Sound
<1>11. Whole' <= Whole
  <2>1. Worth(R) \in Int /\ CallersDue(st) \in Int /\ LoopDue(st[Loop], loop.left) \in Int
    BY <1>7, WorthIs, WholeIs DEF OverInv, IInv, LoopInv
  <2> QED BY <1>2, <1>7, <1>8, <1>9, <2>1 DEF Whole
<1>12. loop.left \in 0 .. BatchSize /\ loop'.left \in 0 .. BatchSize
  BY DEF IInv, LoopInv
<1>13. Whole \in Int /\ Whole' \in Int
  BY <1>10, <1>12, WholeIs, WholeIsThen DEF OverInv
<1> QED BY <1>2, <1>10, <1>11, <1>13, AddsNothing

(* A process stops placing. *)
LEMMA RefuseOver ==
  ASSUME FiniteLimits, IInv, IInv', OverInv, NEW p \in Procs, PlaceRefused(p)
  PROVE  OverInv'
<1>1. /\ st[p].pc = "place" /\ Raised(p) /\ UNCHANGED <<orders, blind>>
      /\ st' = [st EXCEPT ![p] = Quiet]
  BY DEF PlaceRefused, Raised
<1>2. st'[p].pc = "idle" /\ \A q \in Procs \ {p} : st'[q] = st[q]
  BY <1>1, GoesQuiet DEF IInv
<1>3. loop.left \in 0 .. BatchSize /\ loop'.left \in 0 .. BatchSize
  BY DEF IInv, LoopInv
<1>4. OrdersOk(orders) /\ (\A c \in Callers : CallerOk(st[c])) /\ LoopOk(st[Loop])
  BY DEF OverInv, Sound
<1>5. (\A c \in Callers : CallerOk(st'[c])) /\ LoopOk(st'[Loop])
  BY <1>2, <1>4, Bounds DEF CallerOk, LoopOk
<1>6. Sound'
  BY <1>1, <1>4, <1>5 DEF Sound
<1>7. /\ Worth(orders) \in Int /\ CallersDue(st) \in Int /\ CallersDue(st') \in Int
      /\ LoopDue(st[Loop], loop.left) \in Nat /\ LoopDue(st'[Loop], loop'.left) \in Nat
      /\ Whole \in Int /\ Whole' \in Int
  BY <1>3, <1>6, WholeIs, WholeIsThen DEF OverInv
<1>8. CASE p = Loop
  <2>1. CallersDue(st') = CallersDue(st)
    <3>1. \A c \in Callers : st'[c] = st[c]
      BY <1>2, <1>8, Bounds
    <3> QED BY <3>1, CallersDueSame
  <2>2. LoopDue(st'[Loop], loop'.left) = 0
    BY <1>2, <1>8 DEF LoopDue
  <2>3. Whole' <= Whole
    BY <1>1, <1>7, <2>1, <2>2 DEF Whole
  <2> QED BY <1>1, <1>6, <1>7, <2>3, AddsNothing
<1>9. CASE p # Loop
  <2>1. p \in Callers /\ st'[Loop] = st[Loop] /\ loop' = loop
    BY <1>1, <1>2, <1>9, Bounds DEF Procs, Raised
  <2>2. Due(st'[p]) = 0 /\ Due(st[p]) \in Nat
    BY <1>1, <1>2, <1>4, <2>1, MagnitudeIs DEF Due, CallerOk
  <2>3. CallersDue(st') = CallersDue(st) - Due(st[p]) + Due(st'[p])
    <3>1. \A d \in Callers \ {p} : st'[d] = st[d]
      BY <1>2, Bounds
    <3> QED BY <1>4, <1>5, <2>1, <3>1, CallersDueMoves
  <2>4. Whole' <= Whole
    BY <1>1, <1>7, <2>1, <2>2, <2>3 DEF Whole
  <2> QED BY <1>1, <1>6, <1>7, <2>4, AddsNothing
<1> QED BY <1>8, <1>9

(* The broker takes an order. *)
LEMMA AcceptOver ==
  ASSUME FiniteLimits, IInv, Sound, NEW p \in Procs, st[p].pc = "place", Accepted(p)
  PROVE  /\ st[p].intent.amount \in Int
         /\ OrdersOk(orders')
         /\ Worth(orders') <= Worth(orders) + Magnitude(st[p].intent.amount)
<1> DEFINE a == st[p].intent.amount
<1>1. a \in Int
  <2>1. CASE p = Loop
    BY <2>1, LoopAmountIs DEF Sound, LoopOk
  <2>2. CASE p # Loop
    BY <2>2 DEF Sound, CallerOk, Procs
  <2> QED BY <2>1, <2>2
<1>2. PICK filled \in BOOLEAN :
        orders' = orders \cup {[client |-> st[p].intent.client, by |-> p, signed |-> a,
                                filled |-> filled, rested |-> ~filled]}
  BY DEF Accepted
<1> DEFINE n == [client |-> st[p].intent.client, by |-> p, signed |-> a,
                 filled |-> filled, rested |-> ~filled]
<1>3. n \notin orders
  BY DEF Accepted, Repeated
<1>4. n.signed = a /\ n.filled = filled /\ n.rested = ~filled /\ orders' = orders \cup {n}
  BY <1>2
<1> HIDE DEF n, a
<1>5. n.filled \in BOOLEAN /\ n.rested \in BOOLEAN /\ (n.filled \/ n.rested)
  BY <1>4
<1>6. OrdersOk(orders') /\ Worth(orders') = Exposed(n) + Worth(orders)
  BY <1>1, <1>3, <1>4, <1>5, WorthOfNew DEF Sound
<1>7. Exposed(n) \in Int /\ Exposed(n) <= Magnitude(a)
  BY <1>1, <1>4, <1>5, ExposedIs
<1>8. Worth(orders) \in Int /\ Magnitude(a) \in Int
  BY <1>1, WorthIs, MagnitudeIs DEF Sound
<1> QED BY <1>1, <1>6, <1>7, <1>8 DEF a

(* The amount of the intent moves to the orders. *)
LEMMA PlaceOver ==
  ASSUME FiniteLimits, IInv, IInv', OverInv, NEW p \in Procs, st[p].pc = "place",
         Accepted(p), Reported(p) \/ Raised(p), blind' = blind
  PROVE  OverInv'
<1> DEFINE a == st[p].intent.amount
<1>1. a \in Int /\ OrdersOk(orders') /\ Worth(orders') <= Worth(orders) + Magnitude(a)
  BY AcceptOver DEF OverInv
<1>2. Magnitude(a) \in Nat
  BY <1>1, MagnitudeIs
<1>3. (\A c \in Callers : CallerOk(st[c])) /\ LoopOk(st[Loop])
  BY DEF OverInv, Sound
<1>4. loop.left \in 0 .. BatchSize /\ loop'.left \in 0 .. BatchSize
  BY DEF IInv, LoopInv
<1>5. Worth(orders) \in Int /\ CallersDue(st) \in Int /\ Whole \in Int
      /\ LoopDue(st[Loop], loop.left) \in Nat
  BY <1>4, WholeIs DEF OverInv
<1>6. CASE p = Loop
  <2>1. ByLoop(a) /\ GateAdmits(st[Loop].snapshot, a) /\ Magnitude(a) = a
    BY <1>3, <1>6, LoopAmountIs DEF LoopOk
  <2>2. \A c \in Callers : st'[c] = st[c]
    <3>1. st' = [st EXCEPT ![p] = Quiet] \/ st' = [st EXCEPT ![p].pc = "batch"]
      BY <1>6 DEF Reported, Raised
    <3> QED BY <1>6, <3>1, GoesQuiet, LoopGoes, Bounds DEF IInv
  <2>3. /\ st'[Loop].pc # "place"
        /\ \/ st'[Loop].pc = "idle"
           \/ /\ st'[Loop].pc = "batch" /\ st'[Loop].snapshot = st[Loop].snapshot
              /\ loop'.left = loop.left - 1
    <3>1. CASE Raised(p)
      <4>1. st'[p].pc = "idle"
        BY <3>1, GoesQuiet DEF IInv, Raised
      <4> QED BY <1>6, <4>1
    <3>2. CASE Reported(p)
      <4>1. st' = [st EXCEPT ![p].pc = "batch"] /\ p \in DOMAIN st
        BY <1>6, <3>2 DEF Reported, IInv, ProcInv
      <4>2. st[p] = [pc |-> st[p].pc, intent |-> st[p].intent, snapshot |-> st[p].snapshot]
        BY DEF IInv, ProcInv
      <4>3. st'[p] = [st[p] EXCEPT !.pc = "batch"]
        BY <4>1
      <4>4. st'[p].pc = "batch" /\ st'[p].snapshot = st[p].snapshot
        BY <4>2, <4>3
      <4>5. loop' = [loop EXCEPT !.left = loop.left - 1, !.submitted = loop.submitted + 1]
        BY <1>6, <3>2 DEF Reported
      <4>6. loop'.left = loop.left - 1
        BY <4>5 DEF IInv, LoopInv
      <4> QED BY <1>6, <4>4, <4>6
    <3> QED BY <3>1, <3>2
  <2>4. Sound'
    <3>1. \A c \in Callers : CallerOk(st'[c])
      BY <1>3, <2>2
    <3>2. LoopOk(st'[Loop])
      BY <1>3, <1>6, <2>3 DEF LoopOk
    <3> QED BY <1>1, <3>1, <3>2 DEF Sound
  <2>5. CallersDue(st') = CallersDue(st)
    BY <2>2, CallersDueSame
  <2>6. LoopDue(st'[Loop], loop'.left) <= LoopDue(st[Loop], loop.left) - a
    <3>1. loop.left \in 1 .. BatchSize
      BY <1>4, <1>6, Bounds DEF IInv, Begun
    <3>2. CASE st'[Loop].pc = "idle"
      <4>1. LoopDue(st'[Loop], loop'.left) = 0
        BY <3>2 DEF LoopDue
      <4> DEFINE y == [st[Loop] EXCEPT !.pc = "batch"]
      <4>2. st[Loop] = [pc |-> st[Loop].pc, intent |-> st[Loop].intent,
                        snapshot |-> st[Loop].snapshot]
        BY Bounds DEF IInv, ProcInv
      <4>3. y.pc = "batch" /\ y.snapshot = st[Loop].snapshot
        BY <4>2
      <4> HIDE DEF y
      <4>4. LoopDue(y, loop.left - 1) <= LoopDue(st[Loop], loop.left) - a
        BY <1>3, <1>6, <2>1, <3>1, <4>3, LoopDueLess
      <4>5. LoopDue(y, loop.left - 1) \in Nat
        <5>1. LoopOk(y) /\ loop.left - 1 \in 0 .. BatchSize
          BY <1>3, <1>6, <3>1, <4>3, Bounds DEF LoopOk
        <5> QED BY <5>1, LoopDueIs
      <4> QED BY <1>1, <1>5, <4>1, <4>4, <4>5
    <3>3. CASE st'[Loop].pc # "idle"
      <4>1. st'[Loop].pc = "batch" /\ st'[Loop].snapshot = st[Loop].snapshot
            /\ loop'.left = loop.left - 1
        BY <2>3, <3>3
      <4> QED BY <1>3, <1>6, <2>1, <3>1, <4>1, LoopDueLess
    <3> QED BY <3>2, <3>3
  <2>7. /\ Worth(orders') \in Int /\ LoopDue(st'[Loop], loop'.left) \in Nat /\ Whole' \in Int
    BY <1>4, <2>4, WholeIsThen
  <2>8. Whole' <= Whole
    BY <1>1, <1>5, <2>1, <2>5, <2>6, <2>7 DEF Whole
  <2> QED BY <1>5, <2>4, <2>7, <2>8, AddsNothing
<1>7. CASE p # Loop
  <2>1. p \in Callers
    BY <1>7 DEF Procs
  <2>2. st' = [st EXCEPT ![p] = Quiet] /\ loop' = loop
    BY <1>7 DEF Reported, Raised
  <2>3. st'[p].pc = "idle" /\ \A q \in Procs \ {p} : st'[q] = st[q]
    BY <2>2, GoesQuiet DEF IInv
  <2>4. \A c \in Callers : CallerOk(st'[c])
    BY <1>3, <2>1, <2>3, Bounds DEF CallerOk
  <2>5. st'[Loop] = st[Loop] /\ \A d \in Callers \ {p} : st'[d] = st[d]
    BY <1>7, <2>3, Bounds
  <2>6. Sound'
    BY <1>1, <1>3, <2>4, <2>5 DEF Sound
  <2>7. Due(st'[p]) = 0 /\ Due(st[p]) = Magnitude(a)
    BY <2>3 DEF Due
  <2>8. CallersDue(st') = CallersDue(st) - Due(st[p]) + Due(st'[p])
    BY <1>3, <2>1, <2>4, <2>5, CallersDueMoves
  <2>9. /\ Worth(orders') \in Int /\ CallersDue(st') \in Int /\ Whole' \in Int
    BY <1>4, <2>6, WholeIsThen
  <2> HIDE DEF a
  <2>10. Whole' <= Whole
    BY <1>1, <1>2, <1>5, <2>2, <2>5, <2>7, <2>8, <2>9 DEF Whole
  <2> QED BY <1>5, <2>6, <2>9, <2>10, AddsNothing
<1> QED BY <1>6, <1>7

(* The loop reads the account: a batch that its snapshot admits fits in    *)
(* but for what the callers have yet to place.                             *)
LEMMA SnapshotOver ==
  ASSUME FiniteLimits, IInv, IInv', OverInv, LoopSnapshot PROVE OverInv'
<1>1. PICK loss \in Losses \cup {Zero}, open \in {{Positions}, Zero} :
        /\ ReadPositions(open)
        /\ st' = [st EXCEPT ![Loop] = [pc |-> "ready", intent |-> NoIntent,
                                       snapshot |-> SnapshotOf(Loop, open, loss)]]
  BY DEF LoopSnapshot
<1>2. UNCHANGED <<orders, loop>>
  BY DEF LoopSnapshot
<1>3. /\ st'[Loop].pc = "ready" /\ st'[Loop].snapshot.open = open
      /\ \A c \in Callers : st'[c] = st[c]
  <2>1. DOMAIN st = Procs /\ Loop \in Procs /\ \A c \in Callers : c \in Procs /\ c # Loop
    BY Bounds DEF IInv, ProcInv
  <2> QED BY <1>1, <2>1 DEF SnapshotOf
<1>4. OrdersOk(orders) /\ (\A c \in Callers : CallerOk(st[c]))
  BY DEF OverInv, Sound
<1>13. Positions \in Int /\ Worth(orders) <= Positions /\ open \in {{Positions}, {0}}
  BY <1>1, <1>4, PositionsAre, WorthAndPositions DEF Zero
<1>5. Sound'
  BY <1>2, <1>3, <1>4, <1>13 DEF Sound, LoopOk
<1>6. CallersDue(st') = CallersDue(st)
  BY <1>3, CallersDueSame
<1>7. loop.left \in 0 .. BatchSize /\ loop'.left \in 0 .. BatchSize
  BY DEF IInv, LoopInv
<1>8. Whole \in Int /\ Whole' \in Int /\ Worth(orders) \in Int /\ CallersDue(st) \in Int
      /\ LoopDue(st[Loop], loop.left) \in Nat
  BY <1>5, <1>7, WholeIs, WholeIsThen DEF OverInv
<1>9. blind => blind'
  BY <1>1 DEF ReadPositions
<1>10. CASE ~AdmitsSome(st'[Loop].snapshot)
  <2>1. LoopDue(st'[Loop], loop'.left) = 0
    BY <1>10 DEF LoopDue
  <2>2. Whole' <= Whole
    BY <1>2, <1>6, <1>8, <2>1 DEF Whole
  <2> QED BY <1>5, <1>8, <1>9, <2>2, AddsNothing
<1>11. CASE AdmitsSome(st'[Loop].snapshot) /\ ~blind'
  <2>1. open = {Positions}
    BY <1>1, <1>11 DEF ReadPositions
  <2> DEFINE share == Share(st'[Loop].snapshot)
  <2>3. Positions + share <= OpenLimit /\ share <= OrderLimit /\ share \in Nat
    BY <1>3, <1>11, <1>13, <2>1, ShareIs
  <2>4. LoopDue(st'[Loop], loop'.left) = BatchSize * share
    BY <1>3, <1>11 DEF LoopDue
  <2> HIDE DEF share
  <2> DEFINE c == Cardinality(Callers)
             k == OrderLimit
             m == BatchSize - 1
             x == c * k
             y == m * share
             z == m * k
  <2>5. c \in Nat /\ k \in Nat /\ m \in Nat /\ OpenLimit \in Nat
    BY PaperAssumption, FS_CardinalityType, LimitsAre, Bounds
  <2>6. CallersDue(st) <= x
    BY <1>4, CallersDueIs
  <2>7. x \in Nat /\ y \in Nat /\ z \in Nat /\ y <= z
    BY <2>3, <2>5, AtMostABatch
  <2>8. BatchSize * share = y + share
    BY <2>3, Bounds
  <2>9. (c + BatchSize - 1) * k = x + z
    BY <2>5, Bounds
  <2> HIDE DEF c, k, m, x, y, z
  <2>10. Worth(orders') + CallersDue(st') + LoopDue(st'[Loop], loop'.left)
           <= OpenLimit + (c + BatchSize - 1) * k
    BY <1>2, <1>6, <1>8, <1>13, <2>3, <2>4, <2>5, <2>6, <2>7, <2>8, <2>9
  <2>11. Within'
    BY <2>10 DEF Within, c, k
  <2> QED BY <1>5, <2>11 DEF OverInv
<1>12. CASE blind'
  BY <1>5, <1>12 DEF OverInv, Within
<1> QED BY <1>10, <1>11, <1>12

(* A batch is taken. *)
LEMMA ProcessOver ==
  ASSUME FiniteLimits, IInv, IInv', OverInv, ProcessOnce PROVE OverInv'
<1>1. st[Loop].pc = "ready" /\ UNCHANGED <<orders, blind>>
  BY DEF ProcessOnce
<1>2. /\ \A c \in Callers : st'[c] = st[c]
      /\ \/ st'[Loop].pc = "idle"
         \/ /\ st'[Loop].pc = "batch" /\ st'[Loop].snapshot = st[Loop].snapshot
            /\ loop'.left = BatchSize
  <2>1. CASE st' = [st EXCEPT ![Loop] = Quiet]
    BY <2>1, GoesQuiet, Bounds DEF IInv
  <2>2. CASE /\ st' = [st EXCEPT ![Loop].pc = "batch"]
             /\ loop' = [loop EXCEPT !.queue = Tail(@), !.taken = Head(loop.queue),
                                     !.left = BatchSize]
    <3>1. Loop \in DOMAIN st /\ \A c \in Callers : c \in DOMAIN st /\ c # Loop
      BY Bounds DEF IInv, ProcInv
    <3>2. st[Loop] = [pc |-> st[Loop].pc, intent |-> st[Loop].intent,
                      snapshot |-> st[Loop].snapshot]
      BY Bounds DEF IInv, ProcInv
    <3>3. st'[Loop] = [st[Loop] EXCEPT !.pc = "batch"] /\ \A c \in Callers : st'[c] = st[c]
      BY <2>2, <3>1
    <3>4. st'[Loop].pc = "batch" /\ st'[Loop].snapshot = st[Loop].snapshot
      BY <3>2, <3>3
    <3>5. loop'.left = BatchSize
      BY <2>2 DEF IInv, LoopInv
    <3> QED BY <3>3, <3>4, <3>5
  <2> QED BY <2>1, <2>2 DEF ProcessOnce
<1>3. OrdersOk(orders) /\ (\A c \in Callers : CallerOk(st[c])) /\ LoopOk(st[Loop])
  BY DEF OverInv, Sound
<1>4. Sound'
  BY <1>1, <1>2, <1>3 DEF Sound, LoopOk
<1>5. CallersDue(st') = CallersDue(st)
  BY <1>2, CallersDueSame
<1>6. loop.left \in 0 .. BatchSize /\ loop'.left \in 0 .. BatchSize
  BY DEF IInv, LoopInv
<1>7. Whole \in Int /\ Whole' \in Int /\ Worth(orders) \in Int /\ CallersDue(st) \in Int
      /\ LoopDue(st[Loop], loop.left) \in Nat
  BY <1>4, <1>6, WholeIs, WholeIsThen DEF OverInv
<1>8. LoopDue(st'[Loop], loop'.left) = 0
      \/ LoopDue(st'[Loop], loop'.left) = LoopDue(st[Loop], loop.left)
  BY <1>1, <1>2 DEF LoopDue
<1>9. Whole' <= Whole
  BY <1>1, <1>5, <1>7, <1>8 DEF Whole
<1> QED BY <1>1, <1>4, <1>7, <1>9, AddsNothing

(* The one snapshot decides the next intent. *)
LEMMA IntentOver ==
  ASSUME FiniteLimits, IInv, IInv', OverInv, NextIntent PROVE OverInv'
<1>1. st[Loop].pc = "batch" /\ UNCHANGED <<orders, blind>>
  BY DEF NextIntent
<1>2. /\ \A c \in Callers : st'[c] = st[c]
      /\ \/ st'[Loop].pc = "idle"
         \/ st' = st /\ loop.left > 0 /\ loop'.left = loop.left - 1
         \/ /\ st'[Loop].pc = "place" /\ st'[Loop].snapshot = st[Loop].snapshot
            /\ ByLoop(st'[Loop].intent.amount)
            /\ GateAdmits(st[Loop].snapshot, st'[Loop].intent.amount)
            /\ loop' = loop
  <2>1. CASE BatchDone
    BY <2>1, GoesQuiet, Bounds DEF IInv, BatchDone
  <2>2. ASSUME NEW amount \in LoopAmounts[loop.left], PassedOver(amount), loop.left > 0
        PROVE  st' = st /\ loop'.left = loop.left - 1
    <3>1. loop' = [loop EXCEPT !.left = loop.left - 1] /\ st' = st
      BY <2>2 DEF PassedOver
    <3> QED BY <3>1 DEF IInv, LoopInv
  <2>3. ASSUME NEW amount \in LoopAmounts[loop.left], Sending(amount), loop.left > 0
        PROVE  /\ \A c \in Callers : st'[c] = st[c]
               /\ st'[Loop].pc = "place" /\ st'[Loop].snapshot = st[Loop].snapshot
               /\ ByLoop(st'[Loop].intent.amount)
               /\ GateAdmits(st[Loop].snapshot, st'[Loop].intent.amount)
               /\ loop' = loop
    <3> DEFINE intent == [client |-> <<"loop", loop.taken, loop.left>>,
                          amount |-> amount]
    <3>1. Loop \in DOMAIN st /\ \A c \in Callers : c \in DOMAIN st /\ c # Loop
      BY Bounds DEF IInv, ProcInv
    <3>2. st[Loop] = [pc |-> st[Loop].pc, intent |-> st[Loop].intent,
                      snapshot |-> st[Loop].snapshot]
      BY Bounds DEF IInv, ProcInv
    <3>3. /\ st'[Loop] = [st[Loop] EXCEPT !.pc = "place", !.intent = intent]
          /\ \A c \in Callers : st'[c] = st[c]
          /\ GateAdmits(st[Loop].snapshot, amount) /\ loop' = loop
      BY <2>3, <3>1 DEF Sending
    <3>4. intent.amount = amount
      OBVIOUS
    <3> HIDE DEF intent
    <3>5. st'[Loop] = [pc |-> "place", intent |-> intent, snapshot |-> st[Loop].snapshot]
      BY <3>2, <3>3, GoesToPlace
    <3> DEFINE x == st'[Loop]
    <3>6. x.pc = "place" /\ x.intent = intent /\ x.snapshot = st[Loop].snapshot
      BY <3>5
    <3> HIDE DEF x
    <3>7. x.intent.amount = amount
      BY <3>4, <3>6
    <3>8. ByLoop(amount)
      <4>1. loop.left \in 1 .. BatchSize
        BY <2>3, Bounds DEF IInv, LoopInv
      <4> QED BY <4>1 DEF ByLoop
    <3> QED BY <3>3, <3>6, <3>7, <3>8 DEF x
  <2>4. \/ BatchDone
        \/ /\ loop.left > 0
           /\ \E amount \in LoopAmounts[loop.left] : PassedOver(amount) \/ Sending(amount)
    BY DEF NextIntent
  <2> QED BY <2>1, <2>2, <2>3, <2>4
<1>3. OrdersOk(orders) /\ (\A c \in Callers : CallerOk(st[c])) /\ LoopOk(st[Loop])
  BY DEF OverInv, Sound
<1>4. Sound'
  BY <1>1, <1>2, <1>3 DEF Sound, LoopOk
<1>5. CallersDue(st') = CallersDue(st)
  BY <1>2, CallersDueSame
<1>6. loop.left \in 0 .. BatchSize /\ loop'.left \in 0 .. BatchSize
  BY DEF IInv, LoopInv
<1>7. Whole \in Int /\ Whole' \in Int /\ Worth(orders) \in Int /\ CallersDue(st) \in Int
      /\ LoopDue(st[Loop], loop.left) \in Nat /\ LoopDue(st'[Loop], loop'.left) \in Nat
  BY <1>4, <1>6, WholeIs, WholeIsThen DEF OverInv
<1>8. LoopDue(st'[Loop], loop'.left) <= LoopDue(st[Loop], loop.left)
  <2>1. CASE st'[Loop].pc = "idle"
    <3>1. LoopDue(st'[Loop], loop'.left) = 0
      BY <2>1 DEF LoopDue
    <3> QED BY <1>7, <3>1
  <2>2. CASE st' = st /\ loop.left > 0 /\ loop'.left = loop.left - 1
    <3>1. loop.left \in 1 .. BatchSize
      BY <1>6, <2>2, Bounds
    <3> QED BY <1>1, <1>3, <2>2, <3>1, LoopDueLess
  <2>3. CASE st'[Loop].pc = "place" /\ st'[Loop].snapshot = st[Loop].snapshot /\ loop' = loop
    <3>1. LoopDue(st'[Loop], loop'.left) = LoopDue(st[Loop], loop.left)
      BY <1>1, <2>3 DEF LoopDue
    <3> QED BY <1>7, <3>1
  <2> QED BY <1>2, <2>1, <2>2, <2>3
<1>9. Whole' <= Whole
  BY <1>1, <1>5, <1>7, <1>8 DEF Whole
<1> QED BY <1>1, <1>4, <1>7, <1>9, AddsNothing

(* The gate of a caller decides: what it admits fits in with the positions *)
(* it saw, and at most one order of every other caller and a batch of the  *)
(* loop are on their way.                                                  *)
LEMMA CallOver ==
  ASSUME FiniteLimits, IInv, IInv', OverInv, NEW c \in Callers, CallTool(c)
  PROVE  OverInv'
<1>1. PICK request \in Requests, contract \in Contracts, loss \in Losses \cup {Zero},
           open \in {{Positions}, Zero} :
        LET amount == NotionalOf(request, contract)
            seen == SnapshotOf(c, open, loss)
        IN
        /\ ReadPositions(open)
        /\ IF GateAdmits(seen, amount)
           THEN Admitted(c, IF request.side = "buy" THEN amount ELSE 0 - amount)
           ELSE UNCHANGED <<second, st, late, calls>>
  BY DEF CallTool
<1> DEFINE amount == NotionalOf(request, contract)
           seen == SnapshotOf(c, open, loss)
<1>2. /\ UNCHANGED <<loop, orders>> /\ st[c].pc = "idle"
      /\ c \in Procs /\ c # Loop
  BY Bounds DEF CallTool
<1>3. blind => blind'
  BY <1>1 DEF ReadPositions
<1>4. CASE UNCHANGED st
  BY <1>2, <1>3, <1>4, StillOver
<1>5. ASSUME GateAdmits(seen, amount), NEW signed, Admitted(c, signed),
             signed \in {amount, 0 - amount}
      PROVE  OverInv'
  <2>1. amount \in Int
    <3>1. /\ request.price \in Int /\ request.quantity \in Int
          /\ contract.size \in Int
      BY PaperAssumption
    <3>2. Multiplier(contract) \in Int
      BY <3>1 DEF Multiplier
    <3> QED BY <3>1, <3>2 DEF NotionalOf
  <2>2. seen.open = open
    BY DEF SnapshotOf
  <2> HIDE DEF amount, seen
  <2>3. Magnitude(amount) \in Nat /\ signed \in Int /\ Magnitude(signed) = Magnitude(amount)
    BY <1>5, <2>1, MagnitudeIs
  <2>4. Magnitude(amount) <= OrderLimit
    BY <1>5, <2>1, AdmitsOne
  <2>5. /\ st'[c].pc = "place" /\ st'[c].intent.amount = signed
        /\ \A q \in Procs \ {c} : st'[q] = st[q]
    <3>1. PICK now \in second .. MaxSecond :
            st' = [st EXCEPT ![c] =
                 [pc |-> "place", snapshot |-> NoSnapshot,
                  intent |-> [client |-> <<"mcp", now>>, amount |-> signed]]]
      BY <1>5 DEF Admitted
    <3> QED BY <1>2, <3>1 DEF IInv, ProcInv
  <2>6. OrdersOk(orders) /\ (\A d \in Callers : CallerOk(st[d])) /\ LoopOk(st[Loop])
    BY DEF OverInv, Sound
  <2>7. CallerOk(st'[c]) /\ st'[Loop] = st[Loop] /\ \A d \in Callers \ {c} : st'[d] = st[d]
    BY <1>2, <2>3, <2>4, <2>5, Bounds DEF CallerOk
  <2>8. Sound'
    <3>1. \A d \in Callers : CallerOk(st'[d])
      BY <2>6, <2>7
    <3> QED BY <1>2, <2>6, <2>7, <3>1 DEF Sound
  <2>9. CASE blind'
    BY <2>8, <2>9 DEF OverInv, Within
  <2>10. CASE ~blind'
    <3>1. open = {Positions}
      BY <1>1, <2>10 DEF ReadPositions
    <3>2. Positions \in Int /\ Worth(orders) \in Int /\ Worth(orders) <= Positions
      BY <2>6, PositionsAre, WorthIs, WorthAndPositions
    <3>3. Positions + Magnitude(amount) <= OpenLimit
      BY <1>5, <2>1, <2>2, <3>1, <3>2, AdmitsOpen
    <3>4. Due(st'[c]) = Magnitude(amount)
      BY <2>3, <2>5 DEF Due
    <3>5. CallersDue(st') <= (Cardinality(Callers) - 1) * OrderLimit + Due(st'[c])
          /\ CallersDue(st') \in Int
      BY <2>6, <2>7, <2>8, CallersDueMoves, CallersDueIs DEF Sound
    <3>6. loop'.left = loop.left /\ loop.left \in 0 .. BatchSize
      BY <1>2 DEF IInv, LoopInv
    <3>7. /\ LoopDue(st[Loop], loop.left) \in Nat
          /\ LoopDue(st[Loop], loop.left) <= BatchSize * OrderLimit
      BY <2>6, <3>6, LoopDueIs
    <3> DEFINE n == Cardinality(Callers)
               x == (n - 1) * OrderLimit
               y == BatchSize * OrderLimit
    <3>8. n \in Nat /\ OrderLimit \in Nat /\ OpenLimit \in Nat /\ BatchSize \in Nat
      BY PaperAssumption, FS_CardinalityType, LimitsAre, Bounds
    <3>9. x \in Int /\ y \in Int /\ (n + BatchSize - 1) * OrderLimit = x + y
      BY <3>8
    <3>10. CallersDue(st') <= x + Magnitude(amount)
           /\ LoopDue(st[Loop], loop.left) <= y
      BY <3>4, <3>5, <3>7
    <3> HIDE DEF n, x, y
    <3>11. Worth(orders') + CallersDue(st') + LoopDue(st'[Loop], loop'.left)
             <= OpenLimit + (n + BatchSize - 1) * OrderLimit
      BY <1>2, <2>3, <2>7, <3>2, <3>3, <3>5, <3>6, <3>7, <3>8, <3>9, <3>10
    <3>12. Within'
      BY <3>11 DEF Within, n
    <3> QED BY <2>8, <3>12 DEF OverInv
  <2> QED BY <2>9, <2>10
<1> QED BY <1>1, <1>4, <1>5

LEMMA NextOver == ASSUME FiniteLimits, IInv, IInv', OverInv, [Next]_vars PROVE OverInv'
<1>1. CASE PushQuotes \/ Halt \/ SetKillSwitch \/ UNCHANGED vars
  <2>1. st' = st /\ orders' = orders /\ blind' = blind
    BY <1>1 DEF PushQuotes, Halt, SetKillSwitch, vars
  <2>2. loop'.left = loop.left
    BY <1>1 DEF PushQuotes, Halt, SetKillSwitch, vars, IInv, LoopInv
  <2> QED BY <2>1, <2>2, StillOver
<1>2. ASSUME NEW p \in Procs, PlaceAcked(p) PROVE OverInv'
  <2>1. st[p].pc = "place" /\ Accepted(p) /\ Reported(p) /\ blind' = blind
    BY <1>2 DEF PlaceAcked
  <2> QED BY <2>1, PlaceOver
<1>3. ASSUME NEW p \in Procs, PlaceUnacked(p) PROVE OverInv'
  <2>1. st[p].pc = "place" /\ Accepted(p) /\ Raised(p) /\ blind' = blind
    BY <1>3 DEF PlaceUnacked
  <2> QED BY <2>1, PlaceOver
<1> QED BY <1>1, <1>2, <1>3, RefuseOver, CallOver, SnapshotOver, ProcessOver, IntentOver,
           FillOver DEF Next

(* Snapshots age, but not without bound: as long as every snapshot was     *)
(* made with the positions, these exceed the open limit by no more than    *)
(* one order of every other caller and one batch, and by the orders that   *)
(* rested unseen.                                                          *)
THEOREM Overrun == ASSUME FiniteLimits PROVE Spec => []OverrunBounded
<1>1. IInv /\ OverInv => OverrunBounded
  <2> SUFFICES ASSUME IInv, OverInv, ~blind PROVE OverrunBounded
    BY DEF OverrunBounded
  <2> DEFINE limit == OpenLimit + (Cardinality(Callers) + BatchSize - 1) * OrderLimit
             rest == SumFunction([o \in {x \in orders : x.rested} |-> Magnitude(o.signed)])
  <2>1. /\ Worth(orders) \in Int /\ CallersDue(st) \in Nat
        /\ LoopDue(st[Loop], loop.left) \in Nat
    BY WholeIs DEF IInv, LoopInv, OverInv
  <2>2. Worth(orders) + CallersDue(st) + LoopDue(st[Loop], loop.left) <= limit
    BY DEF OverInv, Within
  <2>3. Positions <= Worth(orders) + rest /\ rest \in Int /\ Positions \in Int
    BY WorthAndPositions, PositionsAre DEF OverInv, Sound
  <2>4. limit \in Int
    BY LimitsAre, Bounds, PaperAssumption, FS_CardinalityType
  <2>5. OverrunBounded <=> Positions <= limit + rest
    BY DEF OverrunBounded, OpenLimit, OrderLimit
  <2> HIDE DEF limit, rest
  <2>6. Positions <= limit + rest
    BY <2>1, <2>2, <2>3, <2>4
  <2> QED BY <2>5, <2>6
<1>2. Init => OverInv
  BY InitOver
<1>3. IInv /\ IInv' /\ OverInv /\ [Next]_vars => OverInv'
  BY NextOver
<1> QED BY <1>1, <1>2, <1>3, Invariance, PTL DEF Spec

=============================================================================
