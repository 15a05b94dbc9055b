----------------------------- MODULE PriceOracle -----------------------------
(***************************************************************************)
(* How old the prices are that swaps are quoted at.                        *)
(*                                                                         *)
(* A price goes through up to four places that each have a clock of their  *)
(* own: the tickers a process keeps, the prices it keeps, the price_cache  *)
(* table that processes share, and validate_price.  Threads wait for the   *)
(* table, for the rate limiter and for the exchange, and time passes.      *)
(*                                                                         *)
(* Of a price only two times are kept: when it was computed (timestamp)    *)
(* and when the exchange was asked for the data it rests on.  A fallback   *)
(* price rests on the request that failed or was incomplete.               *)
(*                                                                         *)
(* Only waiting takes time: a thread that waits for nothing goes on before *)
(* the clock does.                                                         *)
(***************************************************************************)
EXTENDS Integers

CONSTANTS
    Threads,  \* threads that ask for prices
    Procs,    \* processes; each has a PriceOracle
    Pairs,    \* directed pairs of coins
    None,     \* nothing kept
    TTL,      \* NESTEX_PRICE_TTL_SECONDS
    MaxAge,   \* NESTEX_MAX_PRICE_AGE_SECONDS
    Gap,      \* NESTEX_PUBLIC_MIN_GAP_SECONDS
    Latency,  \* the longest the exchange takes to answer or to fail
    Stall,    \* the longest an access to the table takes
    MaxNow    \* bound: the time at which the clock stops

ASSUME TimesAreNat ==
    /\ TTL \in Nat \ {0} /\ MaxAge \in Nat /\ Gap \in Nat
    /\ Latency \in Nat /\ Stall \in Nat /\ MaxNow \in Nat
ASSUME NoneIsNoRecord ==
    /\ None \notin [stamp : Nat, made : Nat]
    /\ None \notin [price : [stamp : Nat, made : Nat], at : Nat]
    /\ None \notin [at : Nat, made : Nat]

VARIABLES
    now,      \* the time
    home,     \* the process each thread runs in
    table,    \* price_cache: the price of each pair, or None
    memory,   \* _price_cache: the prices of each process, and when they were asked for
    tickers,  \* its entry public_tickers: when it was stored, and what it rests on
    last,     \* _last_public_call of each process
    call,     \* the call of get_price each thread is in
    sent      \* when each thread last asked the exchange

vars == <<now, home, table, memory, tickers, last, call, sent>>

Price == [stamp : 0..now, made : 0..now]
Remembered == [price : Price, at : 0..now]
Tickers == [at : 0..now, made : 0..now]
Waiting == [at : {"table", "sleep", "exchange"}, pair : Pairs, begun : 0..now, wake : Nat]
Holding == [at : {"store", "done"}, pair : Pairs, price : Price]
Idle == [at |-> "idle"]

TypeOK ==
    /\ now \in Nat
    /\ home \in [Threads -> Procs]
    /\ table \in [Pairs -> Price \cup {None}]
    /\ memory \in [Procs -> [Pairs -> Remembered \cup {None}]]
    /\ tickers \in [Procs -> Tickers \cup {None}]
    /\ last \in [Procs -> (-Gap)..now]
    /\ call \in [Threads -> {Idle} \cup Waiting \cup Holding]
    /\ sent \in [Threads -> (-Gap)..now]

Empty == [pair \in Pairs |-> None]

Init ==
    /\ now = 0
    /\ home \in [Threads -> Procs]
    /\ table = Empty
    /\ memory = [p \in Procs |-> Empty]
    /\ tickers = [p \in Procs |-> None]
    /\ last = [p \in Procs |-> -Gap]
    /\ call = [t \in Threads |-> Idle]
    /\ sent = [t \in Threads |-> -Gap]

-----------------------------------------------------------------------------
(* The checks of age. *)

\* A row's fetched_at is taken in the moment its price is computed.
FreshRow(pair) == table[pair] # None /\ now - table[pair].stamp < TTL

\* The age is taken from the start of the call, not from the moment of the check.
Memory(t) == memory[home[t]][call[t].pair]
FreshMemory(t) == Memory(t) # None /\ call[t].begun - Memory(t).at < TTL

\* AnyTickers is a faulty variant, for the mutation checks.
AnyTickers(t) == tickers[home[t]] # None
FreshTickers(t) ==
    tickers[home[t]] # None /\ now - tickers[home[t]].at < TTL

\* validate_price.  AnyAge is a faulty variant, for the mutation checks.
AnyAge(price) == TRUE
Valid(price) == now - price.stamp =< MaxAge

-----------------------------------------------------------------------------
(* get_price, cut where it waits. *)

At(t, place) == call[t].at = place

\* price_data with the timestamp of this moment.  QuotedLate is a faulty variant.
QuotedLate(made) == [stamp |-> now + 1, made |-> made]
Quoted(made) == [stamp |-> now, made |-> made]

Begin(t, pair) ==
    /\ At(t, "idle")
    /\ call' = [call EXCEPT ![t] = [at |-> "table", pair |-> pair, begun |-> now, wake |-> 0]]
    /\ UNCHANGED <<now, home, table, memory, tickers, last, sent>>

With(t, place, price) ==
    call' = [call EXCEPT ![t] = [at |-> place, pair |-> call[t].pair, price |-> price]]

\* The row, or, when the table cannot be read, none.
ReadRow(t) ==
    /\ At(t, "table") /\ FreshRow(call[t].pair)
    /\ With(t, "done", table[call[t].pair])
    /\ UNCHANGED <<now, home, table, memory, tickers, last, sent>>

ReadMemory(t) ==
    /\ At(t, "table")
    /\ FreshMemory(t)
    /\ With(t, "done", Memory(t).price)
    /\ UNCHANGED <<now, home, table, memory, tickers, last, sent>>

\* A computed price is remembered under the time the call began.
Remember(t, price) ==
    /\ memory' = [memory EXCEPT ![home[t]][call[t].pair] =
                     [price |-> price, at |-> call[t].begun]]
    /\ With(t, "store", price)

Compute(t) ==
    /\ At(t, "table")
    /\ ~ FreshMemory(t)
    /\ FreshTickers(t)
    /\ Remember(t, Quoted(tickers[home[t]].made))
    /\ UNCHANGED <<now, home, table, tickers, last, sent>>

\* _rate_limit_public reads the time of the last call and sleeps for what is left of
\* the gap.  WakeAtOnce is a faulty variant, for the mutation checks.
WakeAtOnce(p) == now
Wake(p) == IF now - last[p] < Gap THEN last[p] + Gap ELSE now

Wait(t) ==
    /\ At(t, "table")
    /\ ~ FreshMemory(t)
    /\ ~ FreshTickers(t)
    /\ call' = [call EXCEPT ![t].at = "sleep", ![t].wake = Wake(home[t])]
    /\ UNCHANGED <<now, home, table, memory, tickers, last, sent>>

Ask(t) ==
    /\ At(t, "sleep") /\ now >= call[t].wake
    /\ last' = [last EXCEPT ![home[t]] = now]
    /\ sent' = [sent EXCEPT ![t] = now]
    /\ call' = [call EXCEPT ![t].at = "exchange", ![t].wake = 0]
    /\ UNCHANGED <<now, home, table, memory, tickers>>

\* The tickers are kept, complete or not; the price is computed or a fallback.
Answer(t) ==
    /\ At(t, "exchange")
    /\ tickers' = [tickers EXCEPT ![home[t]] = [at |-> now, made |-> sent[t]]]
    /\ Remember(t, Quoted(sent[t]))
    /\ UNCHANGED <<now, home, table, last, sent>>

\* A fallback price, which is cached like any other.
Fail(t) ==
    /\ At(t, "exchange")
    /\ Remember(t, Quoted(sent[t]))
    /\ UNCHANGED <<now, home, table, tickers, last, sent>>

\* A later row is overwritten; a write that fails is only logged.
Store(t) ==
    /\ At(t, "store")
    /\ \/ table' = [table EXCEPT ![call[t].pair] = call[t].price]
       \/ UNCHANGED table
    /\ With(t, "done", call[t].price)
    /\ UNCHANGED <<now, home, memory, tickers, last, sent>>

-----------------------------------------------------------------------------
(* What becomes of the price. *)

Return(t) ==
    /\ call' = [call EXCEPT ![t] = Idle]
    /\ UNCHANGED <<now, home, table, memory, tickers, last, sent>>

\* get_conversion_amount
Accept(t) == At(t, "done") /\ Valid(call[t].price) /\ Return(t)
Refuse(t) == At(t, "done") /\ ~ Valid(call[t].price) /\ Return(t)

\* fetch_and_record, which does not validate
Sample(t) == At(t, "done") /\ Return(t)

-----------------------------------------------------------------------------
(* Time and restarts. *)

\* The longest a thread stays where it is; sleeping may take any time.
Due(t) ==
    \/ At(t, "table") /\ now - call[t].begun >= Stall
    \/ At(t, "exchange") /\ now - sent[t] >= Latency
    \/ At(t, "store") /\ now - call[t].price.stamp >= Stall
    \/ At(t, "done")

Tick ==
    /\ now < MaxNow
    /\ \A t \in Threads : ~ Due(t)
    /\ now' = now + 1
    /\ UNCHANGED <<home, table, memory, tickers, last, call, sent>>

\* A process ends with its threads and starts anew.  The table stays.
Restart(p) ==
    /\ memory' = [memory EXCEPT ![p] = Empty]
    /\ tickers' = [tickers EXCEPT ![p] = None]
    /\ last' = [last EXCEPT ![p] = -Gap]
    /\ call' = [t \in Threads |-> IF home[t] = p THEN Idle ELSE call[t]]
    /\ sent' = [t \in Threads |-> IF home[t] = p THEN -Gap ELSE sent[t]]
    /\ UNCHANGED <<now, home, table>>

Step(t) ==
    \/ \E pair \in Pairs : Begin(t, pair)
    \/ ReadRow(t) \/ ReadMemory(t) \/ Compute(t) \/ Wait(t) \/ Ask(t)
    \/ Answer(t) \/ Fail(t) \/ Store(t)
    \/ Accept(t) \/ Refuse(t) \/ Sample(t)

Next == (\E t \in Threads : Step(t)) \/ Tick \/ (\E p \in Procs : Restart(p))

Spec == Init /\ [][Next]_vars

-----------------------------------------------------------------------------
(* Properties. *)

\* A price a swap is quoted at rests on data the exchange was asked for no longer
\* ago than the maximal age, one lifetime of the tickers and one request: the
\* clocks add up, but none of them starts again.
QuotesRestOnRecentData ==
    [][\A t \in Threads : Accept(t) =>
           now - call[t].price.made < MaxAge + TTL + Latency]_vars

\* A sample of fetch_and_record, which nothing validates, rests on data no older than
\* two lifetimes, one request and one stall of the table.
SamplesRestOnRecentData ==
    [][\A t \in Threads : Sample(t) =>
           now - call[t].price.made < 2 * TTL + Latency + Stall]_vars

\* Although threads read and write _last_public_call without a lock, no thread asks
\* the exchange twice within the gap: n threads ask at most n times in it, until
\* their process ends (a new one has no last call).
RequestsAreSpaced ==
    [][\A t \in Threads : Ask(t) => now - sent[t] >= Gap]_vars
=============================================================================
