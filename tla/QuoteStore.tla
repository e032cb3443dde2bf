----------------------------- MODULE QuoteStore -----------------------------
(***************************************************************************)
(* The cache of latest quotes (data/quote_store.py) and those who use it:  *)
(* the handler of stream events, and calls of mcp_get_quote, which ask the *)
(* broker only when the cache has nothing fresh.  A quote is the time at   *)
(* which it was made; whether it becomes one of the cache is in Routes.    *)
(* The repository connects the stream and a clock to it in its tests only. *)
(*                                                                         *)
(* Calls run beside the thread of the stream.  The broker is external: it  *)
(* answers a call with the latest quote of that moment, and the answer     *)
(* arrives later; stream events come in order and may be lost.             *)
(***************************************************************************)
EXTENDS Naturals, Sequences

CONSTANTS
  Symbols,
  Calls,      \* threads that call mcp_get_quote
  MaxAge,     \* max_age_seconds
  MaxTime,    \* bound: the clock
  MaxFeed     \* bound: stream events on their way
QuotesAssumption == {MaxAge, MaxTime, MaxFeed} \subseteq Nat \ {0}

VARIABLES
  now,        \* the time
  latest,     \* symbol -> the latest quote there is, and whether it is usable
  known,      \* symbols the contract master has
  feed,       \* stream events on their way to the handler
  clocked,    \* whether a clock is attached
  quotes,     \* _quotes: symbol -> time of the cached quote, 0 for none
  ask,        \* call -> idle, or asking for a symbol, or with an answer
  settled     \* history: what was cached when nothing was last on its way

vars == <<now, latest, known, feed, clocked, quotes, ask, settled>>

Idle == [at |-> "idle"]

Init ==
  /\ now = 1
  /\ latest = [s \in Symbols |-> [time |-> 1, usable |-> TRUE]]
  /\ known = {}
  /\ feed = << >>
  /\ clocked = FALSE
  /\ quotes = [s \in Symbols |-> 0]
  /\ ask = [c \in Calls |-> Idle]
  /\ settled = [s \in Symbols |-> 0]

(* Whether a request or an event for s is on its way, and the history of it. *)
Pending(s) ==
  \/ \E c \in Calls : ask[c].at # "idle" /\ ask[c].symbol = s
  \/ \E i \in DOMAIN feed : feed[i].symbol = s
Settle == settled' = [s \in Symbols |-> IF Pending(s)' THEN settled[s] ELSE quotes'[s]]

(* Time passes, with a new quote or without; on_quote makes an event of it *)
(* if the stream is up.                                                    *)
Tick ==
  /\ now < MaxTime
  /\ now' = now + 1
  /\ \/ UNCHANGED <<latest, feed>>
     \/ \E s \in Symbols, usable \in BOOLEAN :
          /\ latest' = [latest EXCEPT ![s] = [time |-> now', usable |-> usable]]
          /\ \/ UNCHANGED feed
             \/ /\ Len(feed) < MaxFeed
                /\ feed' = Append(feed, [symbol |-> s, time |-> now', usable |-> usable])
  /\ UNCHANGED <<known, clocked, quotes, ask, settled>>

(* The contract master learns of a symbol; someone attaches a clock. *)
Upsert(s) ==
  /\ s \notin known
  /\ known' = known \cup {s}
  /\ UNCHANGED <<now, latest, feed, clocked, quotes, ask, settled>>
AttachClock ==
  /\ ~clocked
  /\ clocked' = TRUE
  /\ UNCHANGED <<now, latest, known, feed, quotes, ask, settled>>

Recorded(s, quote) ==
  quotes' = IF quote.usable THEN [quotes EXCEPT ![s] = quote.time] ELSE quotes

(* stream_handler: events of unknown contracts are skipped. *)
Handle ==
  /\ feed # << >>
  /\ LET event == Head(feed) IN
     IF event.symbol \in known THEN Recorded(event.symbol, event) ELSE UNCHANGED quotes
  /\ feed' = Tail(feed)
  /\ UNCHANGED <<now, latest, known, clocked, ask>>
  /\ Settle

(* get_fresh: without a clock a cached quote has any age.  A call that it  *)
(* answers changes nothing.                                                *)
Fresh(s) == quotes[s] # 0 /\ (clocked => now - quotes[s] <= MaxAge)

GetQuote(c, s) ==
  /\ ask[c].at = "idle"
  /\ ~Fresh(s)
  /\ ask' = [ask EXCEPT ![c] = [at |-> "asking", symbol |-> s]]
  /\ UNCHANGED <<now, latest, known, feed, clocked, quotes, settled>>

(* The broker answers get_latest_quote, *)
Serve(c) ==
  /\ ask[c].at = "asking"
  /\ ask' = [ask EXCEPT ![c] =
       [at |-> "answered", symbol |-> @.symbol, quote |-> latest[@.symbol]]]
  /\ UNCHANGED <<now, latest, known, feed, clocked, quotes, settled>>

(* and the answer arrives and is recorded, *)
Answer(c) ==
  /\ ask[c].at = "answered"
  /\ Recorded(ask[c].symbol, ask[c].quote)
  /\ ask' = [ask EXCEPT ![c] = Idle]
  /\ UNCHANGED <<now, latest, known, feed, clocked>>
  /\ Settle

(* or the contract is not active, or a request fails. *)
Fails(c) ==
  /\ ask[c].at = "asking"
  /\ ask' = [ask EXCEPT ![c] = Idle]
  /\ UNCHANGED quotes
  /\ UNCHANGED <<now, latest, known, feed, clocked>>
  /\ Settle

Next ==
  \/ Tick \/ Handle \/ AttachClock
  \/ \E s \in Symbols : Upsert(s)
  \/ \E c \in Calls : Serve(c) \/ Answer(c) \/ Fails(c) \/ \E s \in Symbols : GetQuote(c, s)

Spec == Init /\ [][Next]_vars

(* Answers and events are recorded as they arrive, so that each may put an *)
(* older quote over a newer one; but the cache never falls behind what it  *)
(* held when no request and no event of the symbol was last on its way     *)
(* (record, get_latest_quote, stream_handler).                             *)
CacheSettles == \A s \in Symbols : quotes[s] >= settled[s]
=============================================================================
