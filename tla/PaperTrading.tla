---------------------------- MODULE PaperTrading ----------------------------
(***************************************************************************)
(* The two paths on which this program sends single paper orders, through  *)
(* one adapter and one account: callers of mcp_submit_order (the MCP tool  *)
(* and the command line, each a process) and LivePaperLoop, whose owner    *)
(* pushes quote batches and processes them with one risk snapshot a batch. *)
(*                                                                         *)
(* Reading the account and placing an order are separate steps, between    *)
(* which callers, the loop, fills, the kill switch and halt() interleave.  *)
(* Either may raise, and an order may be placed whose acknowledgement is   *)
(* lost.  The reads that make one snapshot are taken at one instant.       *)
(*                                                                         *)
(* The kill switch is read from the environment of the process.  A caller  *)
(* loads the file .env into it when its gate reads the limits, after the   *)
(* account was read, and keeps what is there already.                      *)
(*                                                                         *)
(* The broker is external: it refuses a client order id it has seen, fills *)
(* a limit order at once or later, and its positions hold filled orders.   *)
(* Prices do not move: a position is worth what its order was.             *)
(***************************************************************************)
EXTENDS Gates, FiniteSets, Functions

CONSTANTS
  Callers,      \* processes that call mcp_submit_order
  Loop,         \* the process that owns the LivePaperLoop
  Requests,     \* [side, price, quantity]: what callers ask for
  Contracts,    \* [active, tradable, size]: what the broker says of a symbol
  RiskLimits,   \* the limits of every gate: [order, open, fraction], floats
  Equity,       \* the account's equity, a float
  DotenvAtStart,  \* OPTIVIO_KILL_SWITCH in .env at first: not set, or false
  Losses,       \* losses the day's activities may add up to, floats
  MaxQueue,     \* LivePaperLoop.max_queue
  BatchSize,    \* intents the intent_factory makes of a batch
  LoopAmounts,  \* the notionals each of them may have
  MaxCalls,     \* bound: calls of mcp_submit_order
  MaxBatches,   \* bound: batches pushed
  MaxSecond,    \* bound: the last second of the clock
  MaxResting,   \* bound: orders that do not fill at once
  MaxFaults     \* bound: failed reads and failed or unacknowledged submissions

Procs == Callers \cup {Loop}
ASSUME PaperAssumption ==
  /\ Loop \notin Callers /\ IsFiniteSet(Callers)
  /\ Requests \subseteq [side : {"buy", "sell"}, price : Int, quantity : Int]
  /\ Contracts \subseteq [active : BOOLEAN, tradable : BOOLEAN, size : Int]
  /\ DotenvAtStart \in {"unset", "false"}
  /\ {MaxQueue, BatchSize} \subseteq Nat \ {0}
  /\ LoopAmounts \in [1..BatchSize -> SUBSET (Nat \ {0})]
  /\ {MaxCalls, MaxBatches, MaxSecond, MaxResting, MaxFaults} \subseteq Nat

VARIABLES
  second,      \* of the clock, when a call last passed its gate
  dotenv,      \* OPTIVIO_KILL_SWITCH in the file .env
  environ,     \* process -> OPTIVIO_KILL_SWITCH in its environment
  st,          \* process -> where it is, its intent and its snapshot
  calls,       \* calls of mcp_submit_order so far
  loop,        \* LivePaperLoop: queue, halted, counters, intents left
  orders,      \* the orders the broker has accepted
  told,        \* history: <<process, client id>> reported as submitted
  late,        \* history: process -> orders it let pass, and for the
               \* loop placed, after a stop
  blind,       \* history: some snapshot was made without the positions
  faults       \* faults so far

vars ==
  <<second, dotenv, environ, st, calls, loop, orders, told, late, blind, faults>>

NoIntent == [client |-> <<>>, amount |-> 0]
NoSnapshot == [equity |-> Zero, open |-> Zero, loss |-> Zero, kill |-> FALSE]
Texts == {"unset", "false", "true"}
Quiet == [pc |-> "idle", intent |-> NoIntent, snapshot |-> NoSnapshot]

(* Every variable keeps its type: what a gate sees is never negative, the  *)
(* queue stays in its bound, and no two orders share a client order id.    *)
TypeOK ==
  /\ second \in 0..MaxSecond
  /\ dotenv \in Texts /\ environ \in [Procs -> Texts]
  /\ \A p \in Procs :
       /\ st[p].pc \in {"idle", "ready", "batch", "place"}
       /\ st[p].pc = "place" => st[p].intent.client # <<>>
       /\ ~Less(st[p].snapshot.open, Zero)
  /\ calls \in 0..MaxCalls
  /\ Len(loop.queue) <= MaxQueue /\ loop.left \in 0..BatchSize
  /\ \A o1, o2 \in orders : o1.client = o2.client => o1 = o2
  /\ late \in [Procs -> Nat] /\ blind \in BOOLEAN /\ faults \in 0..MaxFaults

Init ==
  /\ second = 0
  /\ dotenv = DotenvAtStart
  /\ environ = [p \in Procs |-> "unset"]
  /\ st = [p \in Procs |-> Quiet]
  /\ calls = 0
  /\ loop = [queue |-> <<>>, halted |-> FALSE, batches |-> 0, taken |-> 0,
             left |-> 0, submitted |-> 0]
  /\ orders = {}
  /\ told = {}
  /\ late = [p \in Procs |-> 0]
  /\ blind = FALSE
  /\ faults = 0

-----------------------------------------------------------------------------
(* account_snapshot                                                        *)

Fault == faults < MaxFaults /\ faults' = faults + 1

(* What the positions of filled orders add up to; short ones are negative. *)
Positions == SumFunction([o \in {x \in orders : x.filled} |-> o.signed])

(* Mutant of Engaged: the kill switch as it was when the process started. *)
EngagedAtStart(p) == FALSE
Engaged(p) == environ[p] = "true"

(* _load_dotenv: the file sets only what is not set. *)
Loaded(p) == IF environ[p] = "unset" THEN dotenv ELSE environ[p]

(* A failing read of the positions is taken for none, a failing read of    *)
(* the activities for no loss.                                             *)
SnapshotOf(p, open, loss) ==
  [equity |-> Equity, open |-> open, loss |-> loss, kill |-> Engaged(p)]
ReadPositions(open) ==
  \/ open = {Positions} /\ UNCHANGED <<blind, faults>>
  \/ open = Zero /\ open # {Positions} /\ Fault /\ blind' = TRUE

(* Mutant of IsValid: RiskSnapshot without its bounds. *)
IsAnything(snapshot) == TRUE

(* RiskSnapshot refuses a negative number, and account_snapshot raises. *)
IsValid(snapshot) == ~Less(snapshot.open, Zero)

-----------------------------------------------------------------------------
(* mcp_submit_order up to the submission                                   *)

Orderable(contract) == contract.active /\ contract.tradable
Multiplier(contract) == IF contract.size > 0 THEN contract.size ELSE 100
NotionalOf(request, contract) ==
  request.price * request.quantity * Multiplier(contract)

Magnitude(amount) == IF amount < 0 THEN 0 - amount ELSE amount
GateAdmits(snapshot, amount) ==
  PythonGate(RiskLimits, snapshot, {Magnitude(amount)}) = "approved"

Admitted(c, amount) ==
  \E now \in second..MaxSecond :
    /\ second' = now
    /\ st' = [st EXCEPT ![c] =
         [pc |-> "place", snapshot |-> NoSnapshot,
          intent |-> [client |-> <<"mcp", now>>, amount |-> amount]]]
    /\ late' = [late EXCEPT ![c] = @ + IF dotenv = "true" THEN 1 ELSE 0]
    /\ calls' = calls + 1

(* The arguments are in range, the contract is active and tradable, the id *)
(* is drawn from the second, the account is read, and the gate with the    *)
(* limits of the environment admits the order or not.  A call that fails   *)
(* before leaves nothing behind, a refused one the environment it loaded.  *)
CallTool(c) ==
  /\ st[c].pc = "idle"
  /\ calls < MaxCalls
  /\ \E request \in Requests, contract \in Contracts :
       /\ request.quantity > 0 /\ request.price > 0
       /\ Orderable(contract)
       /\ \E loss \in Losses \cup {Zero}, open \in {{Positions}, Zero} :
            LET amount == NotionalOf(request, contract)
                seen == SnapshotOf(c, open, loss)
            IN
            /\ ReadPositions(open)
            /\ IsValid(seen)
            /\ IF GateAdmits(seen, amount)
               THEN Admitted(c, IF request.side = "buy" THEN amount ELSE 0 - amount)
               ELSE UNCHANGED <<second, st, late, calls>>
  /\ environ' = [environ EXCEPT ![c] = Loaded(c)]
  /\ UNCHANGED <<dotenv, loop, orders, told>>

-----------------------------------------------------------------------------
(* LivePaperLoop                                                           *)

(* Mutant of Backpressure: the test comes one batch too late. *)
BackpressureLate == Len(loop.queue) > MaxQueue
Backpressure == Len(loop.queue) = MaxQueue

(* deque(maxlen=MaxQueue).append *)
Appended(queue, batch) ==
  IF Len(queue) = MaxQueue THEN Append(Tail(queue), batch) ELSE Append(queue, batch)

(* push_quotes with quotes that are fresh; a refused batch leaves nothing. *)
PushQuotes ==
  /\ loop.batches < MaxBatches
  /\ ~loop.halted
  /\ ~Backpressure
  /\ loop' = [loop EXCEPT !.batches = @ + 1,
                          !.queue = Appended(@, loop.batches + 1)]
  /\ UNCHANGED <<second, dotenv, environ, st, calls, orders, told, late, blind, faults>>

Halt ==
  /\ ~loop.halted
  /\ loop' = [loop EXCEPT !.halted = TRUE]
  /\ UNCHANGED <<second, dotenv, environ, st, calls, orders, told, late, blind, faults>>

(* The owner reads the account for the next call of process_once. *)
LoopSnapshot ==
  /\ st[Loop].pc = "idle"
  /\ loop.queue # <<>>
  /\ \E loss \in Losses \cup {Zero}, open \in {{Positions}, Zero} :
       /\ ReadPositions(open)
       /\ IsValid(SnapshotOf(Loop, open, loss))
       /\ st' = [st EXCEPT ![Loop] = [pc |-> "ready", intent |-> NoIntent,
                                      snapshot |-> SnapshotOf(Loop, open, loss)]]
  /\ UNCHANGED <<second, dotenv, environ, calls, loop, orders, told, late>>

ProcessOnce ==
  /\ st[Loop].pc = "ready"
  /\ IF loop.halted \/ loop.queue = <<>>
     THEN st' = [st EXCEPT ![Loop] = Quiet] /\ UNCHANGED loop
     ELSE /\ st' = [st EXCEPT ![Loop].pc = "batch"]
          /\ loop' = [loop EXCEPT !.queue = Tail(@), !.taken = Head(loop.queue),
                                  !.left = BatchSize]
  /\ UNCHANGED <<second, dotenv, environ, calls, orders, told, late, blind, faults>>

BatchDone ==
  /\ loop.left = 0
  /\ st' = [st EXCEPT ![Loop] = Quiet]
  /\ UNCHANGED loop

(* An intent the gate refuses is passed over. *)
PassedOver(amount) ==
  /\ ~GateAdmits(st[Loop].snapshot, amount)
  /\ loop' = [loop EXCEPT !.left = @ - 1]
  /\ UNCHANGED st

Sending(amount) ==
  /\ GateAdmits(st[Loop].snapshot, amount)
  /\ st' = [st EXCEPT ![Loop].pc = "place", ![Loop].intent =
               [client |-> <<"loop", loop.taken, loop.left>>, amount |-> amount]]
  /\ UNCHANGED loop

(* The next intent of the batch: the one snapshot decides all of them. *)
NextIntent ==
  /\ st[Loop].pc = "batch"
  /\ \/ BatchDone
     \/ /\ loop.left > 0
        /\ \E amount \in LoopAmounts[loop.left] : PassedOver(amount) \/ Sending(amount)
  /\ UNCHANGED <<second, dotenv, environ, calls, orders, told, late, blind, faults>>

-----------------------------------------------------------------------------
(* submit_paper and the broker                                             *)

Repeated(p) == \E o \in orders : o.client = st[p].intent.client

(* The broker takes the order; one that crosses the market fills at once. *)
Accepted(p) ==
  /\ ~Repeated(p)
  /\ \E filled \in BOOLEAN :
       /\ filled \/ Cardinality({o \in orders : o.rested}) < MaxResting
       /\ orders' = orders \cup {[client |-> st[p].intent.client, by |-> p,
                                  signed |-> st[p].intent.amount,
                                  filled |-> filled, rested |-> ~filled]}
  /\ late' = [late EXCEPT ![p] = @ + IF p = Loop /\ loop.halted THEN 1 ELSE 0]

Reported(p) ==
  /\ told' = told \cup {<<p, st[p].intent.client>>}
  /\ st' = [st EXCEPT ![p] = IF p = Loop THEN [@ EXCEPT !.pc = "batch"] ELSE Quiet]
  /\ loop' = IF p = Loop
             THEN [loop EXCEPT !.left = @ - 1, !.submitted = @ + 1] ELSE loop

(* A submission that raises; process_once loses the rest of its batch. *)
Raised(p) ==
  /\ st' = [st EXCEPT ![p] = Quiet]
  /\ loop' = IF p = Loop THEN [loop EXCEPT !.left = 0] ELSE loop

PlaceAcked(p) ==
  /\ st[p].pc = "place"
  /\ Accepted(p)
  /\ Reported(p)
  /\ UNCHANGED <<second, dotenv, environ, calls, blind, faults>>

(* The order is placed, its acknowledgement is lost, submit_order raises. *)
PlaceUnacked(p) ==
  /\ st[p].pc = "place"
  /\ Accepted(p)
  /\ Raised(p)
  /\ Fault
  /\ UNCHANGED <<second, dotenv, environ, calls, told, blind>>

(* Mutant of PlaceRefused: a used client order id is taken for success. *)
RepeatedIsPlaced(p) ==
  /\ st[p].pc = "place"
  /\ IF Repeated(p) THEN Reported(p) /\ UNCHANGED faults
                    ELSE Raised(p) /\ Fault /\ UNCHANGED told
  /\ UNCHANGED <<second, dotenv, environ, calls, orders, late, blind>>

(* The order does not get through, or its client order id is taken. *)
PlaceRefused(p) ==
  /\ st[p].pc = "place"
  /\ Raised(p)
  /\ IF Repeated(p) THEN UNCHANGED faults ELSE Fault
  /\ UNCHANGED <<second, dotenv, environ, calls, orders, told, late, blind>>

(* A resting order fills. *)
BrokerFill ==
  /\ \E o \in orders :
       /\ ~o.filled
       /\ orders' = (orders \ {o}) \cup {[o EXCEPT !.filled = TRUE]}
  /\ UNCHANGED <<second, dotenv, environ, st, calls, loop, told, late, blind, faults>>

(* The operator edits .env; no code sets the variable in a running process. *)
SetKillSwitch ==
  /\ dotenv # "true"
  /\ dotenv' = "true"
  /\ UNCHANGED <<second, environ, st, calls, loop, orders, told, late, blind, faults>>

Next ==
  \/ \E c \in Callers : CallTool(c)
  \/ \E p \in Procs : PlaceAcked(p) \/ PlaceUnacked(p) \/ PlaceRefused(p)
  \/ PushQuotes \/ Halt \/ LoopSnapshot \/ ProcessOnce \/ NextIntent
  \/ BrokerFill \/ SetKillSwitch

Spec == Init /\ [][Next]_vars

-----------------------------------------------------------------------------
(* What was reported as submitted is an order of the process it was        *)
(* reported to, and the loop counts exactly those: two callers who draw    *)
(* the same id in one second are never told of one order                   *)
(* (mcp_submit_order, submit_paper, process_once).                         *)
OrdersAreOwn ==
  /\ \A t \in told : \E o \in orders : o.by = t[1] /\ o.client = t[2]
  /\ loop.submitted = Cardinality({t \in told : t[1] = Loop})

(* No accepted batch is lost from the queue or overtaken: the batches in   *)
(* the queue are those pushed since the last one taken, in order           *)
(* (push_quotes must refuse before its deque drops the oldest).            *)
BatchesAccounted ==
  loop.queue = [i \in 1..(loop.batches - loop.taken) |-> loop.taken + i]

(* Once .env says stop, a caller lets at most one more call pass its gate, *)
(* the one that loads the file too late, unless an earlier value of the    *)
(* file is in its environment; and after halt() the loop places at most    *)
(* the rest of the batch it had begun                                      *)
(* (account_snapshot, _load_dotenv, approve, process_once, halt).          *)
LateOrdersBounded ==
  /\ \A c \in Callers : late[c] <= 1 \/ environ[c] = "false"
  /\ late[Loop] <= BatchSize

(* Snapshots age while other processes place orders: the positions exceed  *)
(* the open limit by no more than one order of every other caller and one  *)
(* batch, and by the orders that rested unseen (approve on a snapshot).    *)
Number(x) == CHOOSE n \in x : TRUE
OverrunBounded ==
  ~blind =>
    Positions <= Number(RiskLimits.open)
      + (Cardinality(Callers) + BatchSize - 1) * Number(RiskLimits.order)
      + SumFunction([o \in {x \in orders : x.rested} |-> Magnitude(o.signed)])
=============================================================================
