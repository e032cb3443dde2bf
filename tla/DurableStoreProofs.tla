------------------------- MODULE DurableStoreProofs -------------------------
(***************************************************************************)
(* Proofs about DurableStore, for any number of processes and rows: types, *)
(* the chain, the durability of what append() returned, and that the store *)
(* implements HashChain.                                                   *)
(***************************************************************************)
EXTENDS DurableStore, TLAPS

(* Who is in the middle of a transaction holds the lock. *)
LockInv ==
  \A w \in Writers : pc[w] \in Holding <=> lock = w

(* The row under way continues the journal as it stands. *)
RowInv ==
  \A w \in Writers :
    /\ pc[w] # "idle" => row[w].content \in Contents
    /\ pc[w] \in {"read", "inserted"} =>
         /\ row[w].sequence = Last.sequence + 1
         /\ row[w].previous = Last.hash
    /\ pc[w] \in {"inserted", "committed"} => row[w].hash = Digest(row[w])

(* Rows are numbered from one and chained, each by its own schema.         *)
ChainInv ==
  \A i \in DOMAIN table :
    /\ table[i].sequence = i
    /\ table[i].previous = IF i = 1 THEN Genesis ELSE table[i - 1].hash
    /\ table[i].hash = Digest(table[i])

InJournal(r) == r.sequence \in DOMAIN table /\ table[r.sequence] = r

CommittedInv == \A w \in Writers : pc[w] = "committed" => InJournal(row[w])

SchemaInv ==
  /\ \A w \in Writers : row[w].schema = Schema[w]
  /\ \A i \in DOMAIN table : \E w \in Writers : table[i].schema = Schema[w]

IInv ==
  /\ TypeOK /\ LockInv /\ RowInv /\ ChainInv
  /\ CommittedInv /\ ReturnedIsDurable /\ SchemaInv

-----------------------------------------------------------------------------
(* HASHES AND SEQUENCES *)

(* The hash of a typed body is a hash. *)
LEMMA DigestType ==
  ASSUME NEW r, r.sequence \in Nat, r.content \in Contents,
         r.schema \in Schemas, r.previous \in Hashes
  PROVE  Digest(r) \in Hashes
BY DEF Digest, Hashes, Events

(* The last row of a journal of rows. *)
LEMMA LastType ==
  ASSUME table \in Seq(Rows), ChainInv
  PROVE  /\ Last.sequence = Len(table)
         /\ Last.hash \in Hashes
         /\ Last.hash = IF table = << >> THEN Genesis ELSE table[Len(table)].hash
<1>1. CASE table = << >>
  BY <1>1 DEF Last, Hashes, Genesis
<1>2. CASE table # << >>
  <2>1. Len(table) \in DOMAIN table
    BY <1>2
  <2>2. table[Len(table)] \in Rows
    BY <2>1
  <2> QED BY <1>2, <2>1, <2>2 DEF Last, ChainInv, Rows
<1> QED BY <1>1, <1>2

(* Only the process that leaves changes its row, and it blanks it. *)
LEMMA LeaveKeeps ==
  ASSUME IInv, NEW w \in Writers, Leave(w), UNCHANGED <<table, returned>>,
         lock' = IF pc[w] \in Holding THEN Free ELSE lock
  PROVE  IInv'
<1> USE StoreAssumption
<1>1. TypeOK'
  <2>1. Blank(w) \in [sequence : Nat, content : Contents \cup {NoContent},
                      schema : Schemas, previous : Hashes, hash : Hashes]
    BY DEF Blank, Genesis, Hashes
  <2> QED BY <2>1 DEF IInv, TypeOK, Leave
<1>2. LockInv'
  BY DEF IInv, TypeOK, LockInv, Leave, Holding
<1>3. RowInv'
  BY DEF IInv, TypeOK, RowInv, Leave, Last, Digest
<1>4. ChainInv' /\ ReturnedIsDurable'
  BY DEF IInv, ChainInv, ReturnedIsDurable, Digest
<1>5. CommittedInv'
  BY DEF IInv, TypeOK, CommittedInv, InJournal, Leave
<1>6. SchemaInv'
  BY DEF IInv, TypeOK, SchemaInv, Leave, Blank
<1> QED BY <1>1, <1>2, <1>3, <1>4, <1>5, <1>6 DEF IInv

-----------------------------------------------------------------------------
(* ONE LEMMA PER ACTION *)

(* A new append() has taken in nothing but its event. *)
LEMMA CallKeeps ==
  ASSUME IInv, NEW w \in Writers, NEW c \in Contents, Call(w, c)
  PROVE  IInv'
<1> USE StoreAssumption DEF Call, Go
<1>1. TypeOK'
  BY DEF IInv, TypeOK
<1>2. LockInv'
  BY DEF IInv, TypeOK, LockInv, Holding
<1>3. RowInv'
  BY DEF IInv, TypeOK, RowInv, Last, Digest
<1>4. ChainInv' /\ ReturnedIsDurable'
  BY DEF IInv, ChainInv, ReturnedIsDurable, Digest
<1>5. CommittedInv'
  BY DEF IInv, TypeOK, CommittedInv, InJournal
<1>6. SchemaInv'
  BY DEF IInv, TypeOK, SchemaInv
<1> QED BY <1>1, <1>2, <1>3, <1>4, <1>5, <1>6 DEF IInv

(* The lock goes to one process, and only when nobody has it. *)
LEMMA BeginKeeps ==
  ASSUME IInv, NEW w \in Writers, BeginImmediate(w)
  PROVE  IInv'
<1> USE StoreAssumption DEF BeginImmediate, Go
<1>1. TypeOK'
  BY DEF IInv, TypeOK, Holding
<1>2. LockInv'
  BY DEF IInv, TypeOK, LockInv, Holding
<1>3. RowInv'
  BY DEF IInv, TypeOK, RowInv, Last, Digest
<1>4. ChainInv' /\ ReturnedIsDurable' /\ SchemaInv'
  BY DEF IInv, ChainInv, ReturnedIsDurable, Digest, SchemaInv
<1>5. CommittedInv'
  BY DEF IInv, TypeOK, CommittedInv, InJournal
<1> QED BY <1>1, <1>2, <1>3, <1>4, <1>5 DEF IInv

(* The row takes its number and its previous hash from the last one. *)
LEMMA SelectKeeps ==
  ASSUME IInv, NEW w \in Writers, SelectLast(w)
  PROVE  IInv'
<1> USE StoreAssumption DEF SelectLast, Go
<1>0. Last.sequence \in Nat /\ Last.hash \in Hashes
  BY LastType DEF IInv, TypeOK
<1>1. TypeOK'
  <2> DEFINE R == [sequence : Nat, content : Contents \cup {NoContent},
                   schema : Schemas, previous : Hashes, hash : Hashes]
             q == [row[w] EXCEPT !.sequence = Last.sequence + 1,
                                 !.previous = Last.hash]
  <2>1. row \in [Writers -> R] /\ row[w] \in R
    BY DEF IInv, TypeOK
  <2>2. q \in R
    <3>1. ASSUME NEW r \in R, NEW n \in Nat, NEW h \in Hashes
          PROVE  [r EXCEPT !.sequence = n, !.previous = h] \in R
      OBVIOUS
    <3>2. Last.sequence + 1 \in Nat
      BY <1>0
    <3> QED BY <1>0, <2>1, <3>1, <3>2
  <2>3. row' = [row EXCEPT ![w] = q]
    BY Zenon DEF SelectLast
  <2>4. row' \in [Writers -> R]
    <3> HIDE DEF q, R
    <3> QED BY <2>1, <2>2, <2>3
  <2> QED BY <2>4 DEF IInv, TypeOK, Holding
<1>2. LockInv'
  BY DEF IInv, TypeOK, LockInv, Holding
<1>3. RowInv'
  BY DEF IInv, TypeOK, RowInv, Last, Digest
<1>4. ChainInv' /\ ReturnedIsDurable'
  BY DEF IInv, ChainInv, ReturnedIsDurable, Digest
<1>5. CommittedInv'
  BY DEF IInv, TypeOK, CommittedInv, InJournal
<1>6. SchemaInv'
  BY DEF IInv, TypeOK, SchemaInv
<1> QED BY <1>1, <1>2, <1>3, <1>4, <1>5, <1>6 DEF IInv

(* The hash covers the row that is inserted. *)
LEMMA InsertKeeps ==
  ASSUME IInv, NEW w \in Writers, Insert(w)
  PROVE  IInv'
<1> USE StoreAssumption DEF Insert, Go
<1>0. Digest(row[w]) \in Hashes
  BY DigestType DEF IInv, TypeOK, RowInv
<1>1. TypeOK'
  BY <1>0 DEF IInv, TypeOK, Holding
<1>2. LockInv'
  BY DEF IInv, TypeOK, LockInv, Holding
<1>3. RowInv'
  BY DEF IInv, TypeOK, RowInv, Last, Digest
<1>4. ChainInv' /\ ReturnedIsDurable'
  BY DEF IInv, ChainInv, ReturnedIsDurable, Digest
<1>5. CommittedInv'
  BY DEF IInv, TypeOK, CommittedInv, InJournal
<1>6. SchemaInv'
  BY DEF IInv, TypeOK, SchemaInv
<1> QED BY <1>1, <1>2, <1>3, <1>4, <1>5, <1>6 DEF IInv

(* What Commit does to the journal: one more row, which continues it. *)
LEMMA CommitAppends ==
  ASSUME IInv, NEW w \in Writers, Commit(w)
  PROVE  /\ row[w] \in Rows
         /\ row[w].sequence = Len(table) + 1
         /\ row[w].previous = Last.hash
         /\ row[w].hash = Digest(row[w])
         /\ table' = Append(table, row[w])
         /\ table' \in Seq(Rows)
         /\ Len(table') = Len(table) + 1
         /\ table'[Len(table) + 1] = row[w]
         /\ \A i \in DOMAIN table : table'[i] = table[i]
         /\ DOMAIN table' = DOMAIN table \cup {Len(table) + 1}
<1>1. Last.sequence = Len(table)
  BY LastType DEF IInv, TypeOK
<1>2. pc[w] = "inserted" /\ table' = Append(table, row[w])
  BY DEF Commit, Go
<1>3. /\ row[w].sequence = Len(table) + 1
      /\ row[w].previous = Last.hash
      /\ row[w].hash = Digest(row[w])
      /\ row[w].content \in Contents
  BY <1>1, <1>2 DEF IInv, RowInv
<1>4. row[w] \in Rows
  BY <1>3 DEF IInv, TypeOK, Rows
<1> QED BY <1>2, <1>3, <1>4 DEF IInv, TypeOK

LEMMA CommitKeeps ==
  ASSUME IInv, NEW w \in Writers, Commit(w)
  PROVE  IInv'
<1> USE StoreAssumption DEF Commit, Go
<1>a. table \in Seq(Rows) /\ Len(table) \in Nat
  BY DEF IInv, TypeOK
<1>0. /\ row[w] \in Rows
      /\ row[w].sequence = Len(table) + 1
      /\ row[w].previous = Last.hash
      /\ row[w].hash = Digest(row[w])
      /\ table' \in Seq(Rows)
      /\ table'[Len(table) + 1] = row[w]
      /\ \A i \in DOMAIN table : table'[i] = table[i]
      /\ DOMAIN table' = DOMAIN table \cup {Len(table) + 1}
  BY CommitAppends
<1>1. TypeOK'
  BY <1>0 DEF IInv, TypeOK
<1>2. LockInv'
  BY DEF IInv, TypeOK, LockInv, Holding
<1>3. RowInv'
  <2>1. \A v \in Writers : v # w => pc[v] \notin Holding
    BY DEF IInv, LockInv, TypeOK, Holding
  <2> QED BY <2>1 DEF IInv, TypeOK, RowInv, Digest, Holding
<1>4. ChainInv'
  <2> SUFFICES ASSUME NEW i \in DOMAIN table'
               PROVE  /\ table'[i].sequence = i
                      /\ table'[i].previous =
                            IF i = 1 THEN Genesis ELSE table'[i - 1].hash
                      /\ table'[i].hash = Digest(table'[i])
    BY DEF ChainInv, Digest
  <2>1. CASE i \in DOMAIN table
    <3>1. i # 1 => i - 1 \in DOMAIN table
      BY <2>1, <1>a
    <3> QED BY <1>0, <2>1, <3>1 DEF IInv, ChainInv
  <2>2. CASE i = Len(table) + 1
    <3>1. Last.hash = IF table = << >> THEN Genesis ELSE table[Len(table)].hash
      BY LastType DEF IInv, TypeOK
    <3>2. table = << >> <=> i = 1
      BY <1>a, <2>2
    <3>3. i # 1 => i - 1 \in DOMAIN table /\ i - 1 = Len(table)
      BY <1>a, <2>2
    <3> QED BY <1>0, <2>2, <3>1, <3>2, <3>3
  <2> QED BY <1>0, <2>1, <2>2
<1>5. ReturnedIsDurable'
  BY <1>0 DEF IInv, ReturnedIsDurable
<1>6. CommittedInv'
  <2> SUFFICES ASSUME NEW v \in Writers, pc'[v] = "committed"
               PROVE  InJournal(row[v])'
    BY DEF CommittedInv
  <2>1. CASE v = w
    BY <1>0, <2>1 DEF InJournal
  <2>2. CASE v # w
    <3>1. InJournal(row[v])
      BY <2>2 DEF IInv, TypeOK, CommittedInv
    <3> QED BY <1>0, <3>1 DEF InJournal
  <2> QED BY <2>1, <2>2
<1>7. SchemaInv'
  <2>1. \A i \in DOMAIN table' : \E v \in Writers : table'[i].schema = Schema[v]
    <3> SUFFICES ASSUME NEW i \in DOMAIN table'
                 PROVE  \E v \in Writers : table'[i].schema = Schema[v]
      OBVIOUS
    <3>1. CASE i \in DOMAIN table
      BY <1>0, <3>1 DEF IInv, SchemaInv
    <3>2. CASE i = Len(table) + 1
      BY <1>0, <3>2 DEF IInv, SchemaInv
    <3> QED BY <1>0, <3>1, <3>2
  <2> QED BY <2>1 DEF IInv, SchemaInv
<1> QED BY <1>1, <1>2, <1>3, <1>4, <1>5, <1>6, <1>7 DEF IInv

-----------------------------------------------------------------------------
(* THE INVARIANT *)

LEMMA InitIInv == Init => IInv
<1> USE StoreAssumption
<1> SUFFICES ASSUME Init PROVE IInv
  OBVIOUS
<1>1. TypeOK
  <2>1. \A w \in Writers :
          Blank(w) \in [sequence : Nat, content : Contents \cup {NoContent},
                        schema : Schemas, previous : Hashes, hash : Hashes]
    BY DEF Blank, Genesis, Hashes
  <2> QED BY <2>1 DEF Init, TypeOK
<1>2. LockInv /\ RowInv /\ CommittedInv
  BY DEF Init, LockInv, RowInv, CommittedInv, Holding
<1>3. ChainInv /\ ReturnedIsDurable /\ SchemaInv
  BY DEF Init, ChainInv, ReturnedIsDurable, SchemaInv, Blank
<1> QED BY <1>1, <1>2, <1>3 DEF IInv

(* What is returned is the committed row, which is in the journal. *)
LEMMA ReturnKeeps ==
  ASSUME IInv, NEW w \in Writers, Return(w)
  PROVE  IInv'
<1> USE StoreAssumption
<1>1. row[w] \in Rows /\ InJournal(row[w])
  <2>1. InJournal(row[w])
    BY DEF IInv, CommittedInv, Return
  <2> QED BY <2>1 DEF IInv, TypeOK, InJournal
<1>2. TypeOK'
  <2>1. Blank(w) \in [sequence : Nat, content : Contents \cup {NoContent},
                      schema : Schemas, previous : Hashes, hash : Hashes]
    BY DEF Blank, Genesis, Hashes
  <2> QED BY <1>1, <2>1 DEF IInv, TypeOK, Return, Leave
<1>3. LockInv'
  BY DEF IInv, TypeOK, LockInv, Return, Leave, Holding
<1>4. RowInv'
  BY DEF IInv, TypeOK, RowInv, Return, Leave, Last, Digest
<1>5. ChainInv'
  BY DEF IInv, ChainInv, Return, Digest
<1>6. ReturnedIsDurable'
  BY <1>1 DEF IInv, ReturnedIsDurable, Return, InJournal
<1>7. CommittedInv'
  BY DEF IInv, TypeOK, CommittedInv, InJournal, Return, Leave
<1>8. SchemaInv'
  BY DEF IInv, TypeOK, SchemaInv, Return, Leave, Blank
<1> QED BY <1>2, <1>3, <1>4, <1>5, <1>6, <1>7, <1>8 DEF IInv

LEMMA NextIInv == IInv /\ [Next]_vars => IInv'
<1> SUFFICES ASSUME IInv, [Next]_vars PROVE IInv'
  OBVIOUS
<1>1. ASSUME NEW w \in Writers, NEW c \in Contents, Call(w, c) PROVE IInv'
  BY <1>1, CallKeeps
<1>2. ASSUME NEW w \in Writers, BeginImmediate(w) PROVE IInv'
  BY <1>2, BeginKeeps
<1>3. ASSUME NEW w \in Writers, BusyTimeout(w) PROVE IInv'
  BY <1>3, LeaveKeeps DEF BusyTimeout, Holding
<1>4. ASSUME NEW w \in Writers, SelectLast(w) PROVE IInv'
  BY <1>4, SelectKeeps
<1>5. ASSUME NEW w \in Writers, Insert(w) PROVE IInv'
  BY <1>5, InsertKeeps
<1>6. ASSUME NEW w \in Writers, Commit(w) PROVE IInv'
  BY <1>6, CommitKeeps
<1>7. ASSUME NEW w \in Writers, Return(w) PROVE IInv'
  BY <1>7, ReturnKeeps
<1>8. ASSUME NEW w \in Writers, Raise(w) PROVE IInv'
  BY <1>8, LeaveKeeps DEF Raise
<1>9. ASSUME NEW w \in Writers, Die(w) PROVE IInv'
  <2>1. lock = w <=> pc[w] \in Holding
    BY DEF IInv, LockInv
  <2> QED BY <1>9, <2>1, LeaveKeeps DEF Die
<1>10. CASE UNCHANGED vars
  <2>1. TypeOK' /\ LockInv' /\ CommittedInv'
    BY <1>10 DEF vars, IInv, TypeOK, LockInv, CommittedInv, InJournal
  <2>2. RowInv' /\ ChainInv' /\ ReturnedIsDurable' /\ SchemaInv'
    BY <1>10 DEF vars, IInv, RowInv, ChainInv, ReturnedIsDurable, SchemaInv,
                 Last, Digest
  <2> QED BY <2>1, <2>2 DEF IInv
<1> QED
  BY <1>1, <1>2, <1>3, <1>4, <1>5, <1>6, <1>7, <1>8, <1>9, <1>10
     DEF Next, Work

(* Types, the chain and the durability of what was returned hold together  *)
(* in every reachable state.                                               *)
THEOREM Invariance == Spec => []IInv
<1>1. Init => IInv
  BY InitIInv
<1>2. IInv /\ [Next]_vars => IInv'
  BY NextIInv
<1> QED BY <1>1, <1>2, PTL DEF Spec

(* Every variable keeps its type. *)
THEOREM TypeCorrectness == Spec => []TypeOK
<1>1. IInv => TypeOK
  BY DEF IInv
<1> QED BY <1>1, Invariance, PTL

(* What append() has returned stays in the journal, whoever else appends,  *)
(* raises or dies.                                                         *)
THEOREM Durability == Spec => []ReturnedIsDurable
<1>1. IInv => ReturnedIsDurable
  BY DEF IInv
<1> QED BY <1>1, Invariance, PTL

-----------------------------------------------------------------------------
(* VERIFICATION AND REFINEMENT *)

OneSchema == \A v, w \in Writers : Schema[v] = Schema[w]

(* With one schema version for all, the journal verifies at every moment.  *)
THEOREM Verification == OneSchema => (Spec => []JournalVerifies)
<1> SUFFICES ASSUME OneSchema PROVE Spec => []JournalVerifies
  OBVIOUS
<1>1. IInv => JournalVerifies
  <2> SUFFICES ASSUME IInv, NEW w \in Writers, NEW i \in DOMAIN table
               PROVE  /\ table[i].previous =
                            IF i = 1 THEN Genesis ELSE table[i - 1].hash
                      /\ table[i].hash =
                            Digest([table[i] EXCEPT !.schema = Schema[w]])
    BY DEF JournalVerifies, Verify
  <2>1. table[i].schema = Schema[w]
    BY DEF IInv, SchemaInv, OneSchema
  <2>2. table[i] \in Rows
    BY DEF IInv, TypeOK
  <2>3. [table[i] EXCEPT !.schema = Schema[w]] = table[i]
    BY <2>1, <2>2 DEF Rows
  <2> QED BY <2>3 DEF IInv, ChainInv
<1> QED BY <1>1, Invariance, PTL

(* Every step but Commit leaves the journal alone. *)
LEMMA TableChanges ==
  ASSUME [Next]_vars, \A w \in Writers : ~Commit(w)
  PROVE  table' = table
BY DEF Next, Work, vars, Call, BeginImmediate, BusyTimeout, SelectLast, Insert,
       Return, Raise, Die

(* A commit adds one record, chained to the last one. *)
LEMMA CommitExtends ==
  ASSUME IInv, NEW w \in Writers, Commit(w)
  PROVE  Chain!Next
<1> DEFINE event == [content |-> row[w].content, schema |-> row[w].schema]
           n == Len(table) + 1
<1>1. /\ row[w] \in Rows
      /\ row[w].sequence = n
      /\ row[w].previous = Last.hash
      /\ row[w].hash = Digest(row[w])
      /\ table'[n] = row[w]
      /\ \A i \in DOMAIN table : table'[i] = table[i]
      /\ DOMAIN table' = DOMAIN table \cup {n}
  BY CommitAppends
<1>2. table \in Seq(Rows) /\ Len(table) \in Nat /\ DOMAIN table = 1 .. Len(table)
  BY DEF IInv, TypeOK
<1>3. event \in Events
  BY <1>1 DEF Rows, Events
<1>4. Chain!LastHash = Last.hash
  <2>1. Last.hash = IF table = << >> THEN Genesis ELSE table[Len(table)].hash
    BY LastType DEF IInv, TypeOK
  <2>2. Records = << >> <=> table = << >>
    BY <1>2 DEF Records
  <2>3. Len(Records) = Len(table)
    BY <1>2 DEF Records
  <2>4. table # << >> => Records[Len(table)].hash = table[Len(table)].hash
    BY <1>2 DEF Records
  <2> QED BY <2>1, <2>2, <2>3, <2>4 DEF Chain!LastHash, Chain!Genesis, Genesis
<1>5. Chain!Record(n, event, Last.hash) =
        [sequence |-> n, event |-> event, previous |-> Last.hash,
         hash |-> row[w].hash]
  BY <1>1 DEF Chain!Record, Chain!Digest, Digest
<1>6. Records' = Append(Records, Chain!Record(n, event, Last.hash))
  <2>1. Records \in Seq({Records[i] : i \in DOMAIN table}) /\ Len(Records) = Len(table)
    BY <1>2 DEF Records
  <2>2. Records'[n] = Chain!Record(n, event, Last.hash)
    BY <1>1, <1>5 DEF Records
  <2>3. \A i \in DOMAIN table : Records'[i] = Records[i]
    BY <1>1 DEF Records
  <2>4. Records' = [i \in 1 .. n |-> Records'[i]]
    BY <1>1, <1>2 DEF Records
  <2> HIDE DEF n, event
  <2> QED BY <2>1, <2>2, <2>3, <2>4, <1>2 DEF n
<1>7. Chain!Extend(event)
  <2>1. Len(Records) + 1 = n
    BY <1>2 DEF Records
  <2> QED BY <1>4, <1>6, <2>1 DEF Chain!Extend
<1> QED BY <1>3, <1>7 DEF Chain!Next

(* The store implements the hash chain: a commit extends it, and no other  *)
(* step of any process touches it.                                         *)
THEOREM Refinement == Spec => IsHashChain
<1>1. Init => Chain!Init
  BY DEF Init, Chain!Init, Records
<1>2. IInv /\ [Next]_vars => [Chain!Next]_Records
  <2> SUFFICES ASSUME IInv, [Next]_vars
               PROVE  Chain!Next \/ Records' = Records
    OBVIOUS
  <2>1. CASE \E w \in Writers : Commit(w)
    BY <2>1, CommitExtends
  <2>2. CASE \A w \in Writers : ~Commit(w)
    BY <2>2, TableChanges DEF Records
  <2> QED BY <2>1, <2>2
<1> QED BY <1>1, <1>2, Invariance, PTL DEF Spec, IsHashChain, Chain!Spec
=============================================================================
