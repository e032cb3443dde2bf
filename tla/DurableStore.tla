---------------------------- MODULE DurableStore ----------------------------
(***************************************************************************)
(* DurableEventStore (data/durable_store.py): a journal in a SQLite        *)
(* database that several processes append to.                              *)
(*                                                                         *)
(* append() is a read-modify-write in one transaction: BEGIN IMMEDIATE     *)
(* takes the database's write lock, the last row is read, the next one is  *)
(* inserted and committed.  Each statement is a step; between two of them  *)
(* other processes run, the statement raises or the process dies.          *)
(***************************************************************************)
EXTENDS Naturals, Sequences

CONSTANTS
  Writers,     \* processes that append, each with a store object of its own
  Contents,    \* event type, times and payload of an event
  Schemas,     \* schema versions
  Schema,      \* schema_version of a process's store object
  MaxRows      \* bound: rows in the journal

Free == "free"
NoContent == "no content"

ASSUME StoreAssumption ==
  /\ Free \notin Writers
  /\ NoContent \notin Contents
  /\ Schema \in [Writers -> Schemas]
  /\ MaxRows \in Nat

Events == [content : Contents, schema : Schemas]

(* A hash is the sequence of all that went into it, so free of collisions. *)
Hashes == Seq(Nat \X Events)

Genesis == << >>

(* The record hash of a row's body. *)
Digest(r) ==
  Append(r.previous, <<r.sequence, [content |-> r.content, schema |-> r.schema]>>)

Rows == [sequence : Nat, content : Contents, schema : Schemas,
         previous : Hashes, hash : Hashes]

VARIABLES
  table,     \* the committed rows of events, in the order of their sequence
  lock,      \* the process that holds the database's write lock
  pc,        \* where a process's append() stands
  row,       \* the row it works on, as far as it is known
  returned   \* history: the rows append() has returned

vars == <<table, lock, pc, row, returned>>

Holding == {"begun", "read", "inserted"}

TypeOK ==
  /\ table \in Seq(Rows)
  /\ lock \in Writers \cup {Free}
  /\ pc \in [Writers -> {"idle", "waiting", "committed"} \cup Holding]
  /\ row \in [Writers -> [sequence : Nat, content : Contents \cup {NoContent},
                          schema : Schemas, previous : Hashes, hash : Hashes]]
  /\ returned \subseteq Rows

Blank(w) == [sequence |-> 0, content |-> NoContent, schema |-> Schema[w],
             previous |-> Genesis, hash |-> Genesis]

Init ==
  /\ table = << >>
  /\ lock = Free
  /\ pc = [w \in Writers |-> "idle"]
  /\ row = [w \in Writers |-> Blank(w)]
  /\ returned = {}

-----------------------------------------------------------------------------
(* APPEND *)

Go(w, from, to) == pc[w] = from /\ pc' = [pc EXCEPT ![w] = to]

(* append() is over, by returning or raising. *)
Leave(w) ==
  /\ pc' = [pc EXCEPT ![w] = "idle"]
  /\ row' = [row EXCEPT ![w] = Blank(w)]

Call(w, c) ==
  /\ Go(w, "idle", "waiting")
  /\ Len(table) < MaxRows
  /\ row' = [row EXCEPT ![w].content = c]
  /\ UNCHANGED <<table, lock, returned>>

(* Mutant of BeginImmediate: BEGIN alone waits for nobody. *)
BeginDeferred(w) ==
  /\ Go(w, "waiting", "begun")
  /\ lock' = w
  /\ UNCHANGED <<table, row, returned>>

BeginImmediate(w) ==
  /\ Go(w, "waiting", "begun")
  /\ lock = Free
  /\ lock' = w
  /\ UNCHANGED <<table, row, returned>>

(* Mutant of BusyTimeout: the wait for the lock has no end. *)
WaitForLock(w) == pc[w] = "waiting" /\ FALSE /\ UNCHANGED vars

(* The busy timeout ends the wait for the lock with an exception. *)
BusyTimeout(w) ==
  /\ pc[w] = "waiting"
  /\ lock # Free
  /\ Leave(w)
  /\ UNCHANGED <<table, lock, returned>>

(* The sequence and the hash of the last row. *)
Last == IF table = << >> THEN [sequence |-> 0, hash |-> Genesis]
        ELSE [sequence |-> table[Len(table)].sequence,
              hash     |-> table[Len(table)].hash]

SelectLast(w) ==
  /\ Go(w, "begun", "read")
  /\ row' = [row EXCEPT ![w] = [@ EXCEPT !.sequence = Last.sequence + 1,
                                         !.previous = Last.hash]]
  /\ UNCHANGED <<table, lock, returned>>

(* Mutants of Insert: the previous hash is left out of the body, and the   *)
(* row is handed out before it is committed.                               *)
InsertUnchained(w) ==
  /\ Go(w, "read", "inserted")
  /\ row' = [row EXCEPT ![w].hash = Digest([row[w] EXCEPT !.previous = Genesis])]
  /\ UNCHANGED <<table, lock, returned>>

InsertReturning(w) ==
  /\ Go(w, "read", "inserted")
  /\ row' = [row EXCEPT ![w].hash = Digest(row[w])]
  /\ returned' = returned \cup {row'[w]}
  /\ UNCHANGED <<table, lock>>

Insert(w) ==
  /\ Go(w, "read", "inserted")
  /\ row' = [row EXCEPT ![w].hash = Digest(row[w])]
  /\ UNCHANGED <<table, lock, returned>>

Commit(w) ==
  /\ Go(w, "inserted", "committed")
  /\ table' = Append(table, row[w])
  /\ lock' = Free
  /\ UNCHANGED <<row, returned>>

(* Mutant of Return: the row is reset before it is returned. *)
ReturnReset(w) ==
  /\ pc[w] = "committed"
  /\ Leave(w)
  /\ returned' = returned \cup {row'[w]}
  /\ UNCHANGED <<table, lock>>

Return(w) ==
  /\ pc[w] = "committed"
  /\ Leave(w)
  /\ returned' = returned \cup {row[w]}
  /\ UNCHANGED <<table, lock>>

(* Mutant of Raise: neither rolled back nor closed. *)
RaiseUnclosed(w) ==
  /\ pc[w] \in Holding
  /\ Leave(w)
  /\ UNCHANGED <<table, lock, returned>>

(* A statement raises: roll back, close and raise. *)
Raise(w) ==
  /\ pc[w] \in Holding
  /\ Leave(w)
  /\ lock' = Free
  /\ UNCHANGED <<table, returned>>

(* The process dies; the database drops its transaction and its lock. *)
Die(w) ==
  /\ pc[w] # "idle"
  /\ Leave(w)
  /\ lock' = IF lock = w THEN Free ELSE lock
  /\ UNCHANGED <<table, returned>>

-----------------------------------------------------------------------------
(* append() goes on, or ends by an exception. *)
Work(w) ==
  \/ BeginImmediate(w) \/ BusyTimeout(w)
  \/ SelectLast(w) \/ Insert(w) \/ Commit(w) \/ Return(w) \/ Raise(w)

Next ==
  \E w \in Writers :
    Work(w) \/ Die(w) \/ \E c \in Contents : Call(w, c)

Spec == Init /\ [][Next]_vars

(* A started append() goes on; nobody has to call it, and nothing dies. *)
FairSpec == Spec /\ \A w \in Writers : WF_vars(Work(w))

-----------------------------------------------------------------------------
(* PROPERTIES *)

(* verify(), run by a store object with this schema_version. *)
Verify(schema) ==
  \A i \in DOMAIN table :
    /\ table[i].previous = IF i = 1 THEN Genesis ELSE table[i - 1].hash
    /\ table[i].hash = Digest([table[i] EXCEPT !.schema = schema])

(* Whatever processes append, wait, raise and die, the journal verifies at *)
(* every moment, for each of them (they share one schema_version).         *)
JournalVerifies == \A w \in Writers : Verify(Schema[w])

(* What append() returned is in the journal for good, under the sequence   *)
(* it was returned with; no other append() returns the same sequence.      *)
ReturnedIsDurable ==
  \A r \in returned : r.sequence \in DOMAIN table /\ table[r.sequence] = r

(* The journal as a chain of records. *)
Records ==
  [i \in DOMAIN table |->
    [sequence |-> table[i].sequence,
     event    |-> [content |-> table[i].content, schema |-> table[i].schema],
     previous |-> table[i].previous,
     hash     |-> table[i].hash]]

Chain == INSTANCE HashChain WITH chain <- Records

(* The journal is a hash chain: it only ever grows at its end, by one      *)
(* record that carries the hash of the one before.                         *)
IsHashChain == Chain!Spec

(* Every append() returns or raises, also while others keep taking the     *)
(* lock from it.                                                           *)
AppendEnds == \A w \in Writers : (pc[w] # "idle") ~> (pc[w] = "idle")

(* No exception leaves the journal locked. *)
LockIsReleased == (lock # Free) ~> (lock = Free)
=============================================================================
