--------------------------- MODULE ContractMaster ---------------------------
(***************************************************************************)
(* The contract master (data/live_market.py): a dictionary of option       *)
(* contracts that tasks running refresh_contract_master fill, page by page *)
(* of what the broker lists.                                               *)
(*                                                                         *)
(* A task awaits each page.  The broker, which is external, answers with   *)
(* the page as it is then, and the answer arrives later, after answers to  *)
(* other tasks perhaps, or not at all.  A row may be malformed, so that    *)
(* from_alpaca raises, or have economics or a classification that upsert   *)
(* refuses.  Nothing is ever taken out of the master.                      *)
(***************************************************************************)
EXTENDS Naturals, Sequences, FiniteSets, SequencesExt

CONSTANTS
  Pages,       \* the pages of the listing: sequences of symbols
  Tasks,       \* that run refresh_contract_master
  MaxVersion   \* bound: versions of a listed contract
Listing == UNION {ToSet(Pages[i]) : i \in DOMAIN Pages}
MasterAssumption ==
  /\ Pages \in Seq(Seq(Listing)) /\ Pages # << >>
  /\ \A i \in DOMAIN Pages : Pages[i] # << >>
  /\ MaxVersion \in Nat \ {0}

VARIABLES
  listed,      \* symbol -> the version the broker lists, and what row it makes
  contracts,   \* _contracts: symbol -> the version known, 0 for none
  refresh,     \* task -> its page, the rows that arrive, and history: the
               \* versions listed as it began, and whether it ran alone
  floor        \* history: symbol -> the version a refresh has made sure of

vars == <<listed, contracts, refresh, floor>>

Rows == {"good", "invalid", "malformed"}
Resting == [page |-> 0, rows |-> << >>, since |-> [s \in Listing |-> 0], alone |-> TRUE]

Init ==
  /\ listed = [s \in Listing |-> [version |-> 1, row |-> "good"]]
  /\ contracts = [s \in Listing |-> 0]
  /\ refresh = [t \in Tasks |-> Resting]
  /\ floor = [s \in Listing |-> 0]

(* The broker changes a contract, or how it writes it. *)
Relist(s) ==
  /\ listed[s].version < MaxVersion
  /\ \E row \in Rows :
       listed' = [listed EXCEPT ![s] = [version |-> @.version + 1, row |-> row]]
  /\ UNCHANGED <<contracts, refresh, floor>>

Begin(t) ==
  /\ refresh[t].page = 0
  /\ refresh' = [u \in Tasks |->
       IF u = t
       THEN [page |-> 1, rows |-> << >>, since |-> [s \in Listing |-> listed[s].version],
             alone |-> \A other \in Tasks : refresh[other].page = 0]
       ELSE [refresh[u] EXCEPT !.alone = FALSE]]
  /\ UNCHANGED <<listed, contracts, floor>>

Awaits(t) == refresh[t].page # 0 /\ refresh[t].rows = << >>

(* The broker answers the request for a page, *)
FetchPage(t) ==
  /\ Awaits(t)
  /\ LET page == Pages[refresh[t].page] IN
     refresh' = [refresh EXCEPT ![t].rows = [i \in DOMAIN page |->
       [symbol |-> page[i], version |-> listed[page[i]].version,
        row |-> listed[page[i]].row]]]
  /\ UNCHANGED <<listed, contracts, floor>>

(* or fetch_page raises, and with it the refresh. *)
FetchFails(t) ==
  /\ Awaits(t)
  /\ refresh' = [refresh EXCEPT ![t] = Resting]
  /\ UNCHANGED <<listed, contracts, floor>>

(* upsert_many over the list that from_alpaca has made of the rows: a      *)
(* malformed one keeps all of them out, an invalid one those after it.     *)
Upserted(rows) ==
  {i \in DOMAIN rows :
     /\ \A j \in DOMAIN rows : rows[j].row # "malformed"
     /\ \A j \in 1..i : rows[j].row # "invalid"}

(* Mutant of LastPage: the token of the next page is not used. *)
AnyPage(t) == TRUE

LastPage(t) == refresh[t].page = Len(Pages)

(* The rows arrive and are upserted; the refresh goes on to the next page, *)
(* returns after the last one or raises.                                   *)
TakePage(t) ==
  LET rows == refresh[t].rows
      upserted == Upserted(rows)
      whole == upserted = DOMAIN rows
  IN
  /\ rows # << >>
  /\ contracts' = [s \in Listing |->
       IF \E i \in upserted : rows[i].symbol = s
       THEN rows[CHOOSE i \in upserted : rows[i].symbol = s].version
       ELSE contracts[s]]
  /\ refresh' = [refresh EXCEPT ![t] =
       IF whole /\ ~LastPage(t)
       THEN [page |-> @.page + 1, rows |-> << >>, since |-> @.since, alone |-> @.alone]
       ELSE Resting]
  /\ floor' =
       IF whole /\ LastPage(t) /\ refresh[t].alone
       THEN refresh[t].since ELSE floor
  /\ UNCHANGED listed

Next ==
  \/ \E s \in Listing : Relist(s)
  \/ \E t \in Tasks : Begin(t) \/ FetchPage(t) \/ FetchFails(t) \/ TakePage(t)

Spec == Init /\ [][Next]_vars

(* A refresh that returns without another beside it has brought the master *)
(* up to what was listed as it began, and no later one, which may fail at  *)
(* any page or overlap with others, puts the master back behind that       *)
(* (refresh_contract_master, upsert_many).                                 *)
MasterKeepsUp == \A s \in Listing : contracts[s] >= floor[s]
=============================================================================
