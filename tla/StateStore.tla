----------------------------- MODULE StateStore -----------------------------
(***************************************************************************)
(* ExecutionStateStore (execution/state_store.py): a hash-chained file of  *)
(* one JSON record a line, written by one store object at a time, which    *)
(* caches the hash of the last record.  An append() may raise or the       *)
(* process may die before, within or after its write; the next object is   *)
(* made on the file that is left.                                          *)
(*                                                                         *)
(* A hash is the sequence of all that was hashed, so free of collisions.   *)
(***************************************************************************)
EXTENDS Naturals, Sequences, SequencesExt

CONSTANTS
  Events,    \* [time, available, realized]: when it happened, when it is known
  MaxLines   \* bound: lines of the file

Genesis == << >>   \* sixty-four zeros
LinesAssumption == MaxLines \in Nat

VARIABLES
  lines,      \* the file
  alive,      \* there is a store object
  lastHash,   \* its _last_hash
  writing     \* the event of an append() whose line is written, if any

(* History: the numbers of the lines whose append() returned, and of those *)
(* that a later object found whole at the end of the file, for as long as  *)
(* every line of the file parses.                                          *)
VARIABLE kept

vars == <<lines, alive, lastHash, writing, kept>>

LineOf(event, previous, ended) ==
  [torn |-> FALSE, ended |-> ended, event |-> <<event>>, previous |-> previous,
   hash |-> Append(previous, event)]

(* A line that does not parse, and whether a line feed ends it. *)
TornLine(ended) ==
  [torn |-> TRUE, ended |-> ended, event |-> << >>, previous |-> Genesis,
   hash |-> Genesis]

Parses(file) == \A i \in DOMAIN file : ~file[i].torn
Ends(file) == file = << >> \/ Last(file).ended

(* Text added to the file: a line of its own, or glued to a last line that *)
(* lacks its line feed, and then the two do not parse.                     *)
Put(file, line) ==
  IF Ends(file) THEN Append(file, line)
                ELSE [file EXCEPT ![Len(file)] = TornLine(line.ended)]

TypeOK ==
  /\ Len(lines) <= MaxLines
  /\ \A i \in DOMAIN lines : lines[i].torn = (lines[i].event = << >>)
  /\ alive \in BOOLEAN
  /\ writing \in {<< >>} \cup {<<event>> : event \in Events}
  /\ writing # << >> => alive
  /\ \A i \in DOMAIN kept : kept[i] \in DOMAIN lines

Init ==
  /\ lines = << >>
  /\ alive = FALSE
  /\ lastHash = Genesis
  /\ writing = << >>
  /\ kept = << >>

(* Mutant of ReadLastHash: the file is not read. *)
StartAnew(file) == Genesis
ReadLastHash(file) == IF file = << >> THEN Genesis ELSE Last(file).hash

Keep ==
  kept' = IF /\ lines # << >> /\ Parses(lines) /\ Ends(lines)
             /\ kept = << >> \/ Last(kept) < Len(lines)
          THEN Append(kept, Len(lines)) ELSE kept

(* The constructor; it raises on a file with a torn line.  A last line     *)
(* that lacks only its line feed it takes for good.                        *)
Open ==
  /\ ~alive
  /\ Parses(lines)
  /\ alive' = TRUE
  /\ lastHash' = ReadLastHash(lines)
  /\ Keep
  /\ UNCHANGED <<lines, writing>>

Writable(event) ==
  /\ alive /\ writing = << >>
  /\ event.available >= event.time
  /\ Len(lines) < MaxLines

(* append() up to the end of its write. *)
Write(event) ==
  /\ Writable(event)
  /\ lines' = Put(lines, LineOf(event, lastHash, TRUE))
  /\ writing' = <<event>>
  /\ UNCHANGED <<alive, lastHash, kept>>

Return ==
  /\ writing # << >>
  /\ lastHash' = lastHash \o writing
  /\ writing' = << >>
  /\ Keep
  /\ UNCHANGED <<lines, alive>>

(* append() raises although its line is written, as when closing the file  *)
(* fails: the object lives on and does not know its last record.           *)
Raise ==
  /\ writing # << >>
  /\ writing' = << >>
  /\ UNCHANGED <<lines, alive, lastHash, kept>>

(* A write that ends early, before its first character, within its text or *)
(* between the text and the line feed: append() raises or the process dies.*)
WriteShort(event) ==
  /\ Writable(event)
  /\ lines' \in {lines, Put(lines, TornLine(FALSE)),
                 Put(lines, LineOf(event, lastHash, FALSE))}
  /\ alive' \in BOOLEAN
  /\ UNCHANGED <<lastHash, writing, kept>>

Die ==
  /\ alive
  /\ alive' = FALSE
  /\ writing' = << >>
  /\ UNCHANGED <<lines, lastHash, kept>>

Next ==
  \/ \E event \in Events : Write(event) \/ WriteShort(event)
  \/ Open \/ Return \/ Raise \/ Die

Spec == Init /\ [][Next]_vars

(* feedback: the lines of realized outcomes that were known by the cutoff, *)
(* in the order of the file; it raises on a file with a torn line.         *)
Feedback(cutoff) ==
  {i \in DOMAIN lines :
     \E event \in ToSet(lines[i].event) : event.realized /\ event.available <= cutoff}

(* verify_chain of a file whose lines all parse. *)
VerifyChain ==
  \A i \in DOMAIN lines :
    lines[i].previous = IF i = 1 THEN Genesis ELSE lines[i - 1].hash

-----------------------------------------------------------------------------
(* The kept records, numbered for HashChain. *)
Numbered(hash) == [i \in DOMAIN hash |-> <<i, hash[i]>>]
RecordOf(line, i) ==
  [sequence |-> i, event |-> Head(line.event),
   previous |-> Numbered(line.previous), hash |-> Numbered(line.hash)]
Records == [i \in DOMAIN kept |-> RecordOf(lines[kept[i]], i)]

Chain == INSTANCE HashChain WITH chain <- Records

(* The records whose append() returned, and those of a dead object that    *)
(* the next one found whole, are a hash chain that only ever grows at its  *)
(* end, whatever raises or dies in between (append, _read_last_hash).      *)
IsHashChain == Chain!Spec

(* verify_chain accepts a file that parses unless an append() raised with  *)
(* its line written and another record follows that line: that record      *)
(* names the one before both, since _last_hash was not set (append).       *)
VerifyTells ==
  Parses(lines) => (VerifyChain <=> \A i \in DOMAIN lines \ {Len(lines)} : i \in ToSet(kept))

(* What the feedback of a cutoff has once given it gives again, before     *)
(* anything new, unless the next append() is glued to a last line without  *)
(* its line feed: then the file parses no more (feedback, append).         *)
FeedbackStays ==
  [][\A event \in Events :
       LET given == Feedback(event.available) IN
       /\ \A i \in given :
            lines'[i] = lines[i] \/ (i = Len(lines) /\ ~lines[i].ended /\ ~Parses(lines'))
       /\ Parses(lines') => given = {i \in Feedback(event.available)' : i <= Len(lines)}]_vars
=============================================================================
