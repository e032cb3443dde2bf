--------------------------- MODULE MCDurableStore ---------------------------
(* Processes with one schema version and a journal of a few rows, for TLC. *)
EXTENDS DurableStore

MCOneSchema == [w \in Writers |-> 1]
=============================================================================
