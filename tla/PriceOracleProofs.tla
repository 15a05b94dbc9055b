-------------------------- MODULE PriceOracleProofs --------------------------
(***************************************************************************)
(* The three bounds of PriceOracle, for any number of threads, processes   *)
(* and pairs and any lifetimes, delays and horizon.                        *)
(***************************************************************************)
EXTENDS PriceOracle, TLAPS

\* The data a price rests on was asked for at most one request before it was kept as
\* tickers, and it was kept as tickers for less than their lifetime.
Rests(price) == price.made =< price.stamp /\ price.stamp - price.made < TTL + Latency

TickersRest ==
    \A p \in Procs : tickers[p] # None =>
        tickers[p].made =< tickers[p].at /\ tickers[p].at - tickers[p].made =< Latency

TableRests == \A pair \in Pairs : table[pair] # None => Rests(table[pair])

\* A price is remembered under a time no later than its timestamp.
MemoryRests ==
    \A p \in Procs, pair \in Pairs : memory[p][pair] # None =>
        /\ Rests(memory[p][pair].price)
        /\ memory[p][pair].at =< memory[p][pair].price.stamp

\* How long a thread has been where it is, and how old the price it holds has become.
CallInTime(t) ==
    /\ At(t, "table") => now - call[t].begun =< Stall
    /\ At(t, "exchange") => sent[t] >= 0 /\ now - sent[t] =< Latency
    /\ At(t, "store") => Rests(call[t].price) /\ now - call[t].price.stamp =< Stall
    /\ At(t, "done") => Rests(call[t].price) /\ now - call[t].price.stamp < TTL + Stall
CallsInTime == \A t \in Threads : CallInTime(t)

\* The time of a process's last request is not before that of any of its threads, and
\* who sleeps sleeps until the gap since its own last request is over.
Spaced ==
    \A t \in Threads :
        /\ sent[t] =< last[home[t]]
        /\ At(t, "sleep") => call[t].wake >= sent[t] + Gap

IInv == TypeOK /\ TickersRest /\ TableRests /\ MemoryRests /\ CallsInTime /\ Spaced

-----------------------------------------------------------------------------
(* Types. *)

LEMMA TimesAre ==
    /\ TTL \in Nat /\ TTL > 0 /\ MaxAge \in Nat /\ Gap \in Nat
    /\ Latency \in Nat /\ Stall \in Nat /\ -Gap \in Int
BY TimesAreNat

LEMMA WaitingAt ==
    ASSUME TypeOK, NEW t \in Threads,
           NEW place \in {"table", "sleep", "exchange"}, At(t, place)
    PROVE  /\ call[t] \in Waiting /\ call[t].at = place
           /\ call[t].pair \in Pairs /\ call[t].begun \in 0..now /\ call[t].wake \in Nat
BY DEF TypeOK, At, Waiting, Holding, Idle

LEMMA HoldingAt ==
    ASSUME TypeOK, NEW t \in Threads, NEW place \in {"store", "done"}, At(t, place)
    PROVE  /\ call[t] \in Holding /\ call[t].at = place
           /\ call[t].pair \in Pairs /\ call[t].price \in Price
BY DEF TypeOK, At, Waiting, Holding, Idle

\* What a thread that ends up with a price does to its call.
LEMMA WithType ==
    ASSUME TypeOK, NEW t \in Threads, call[t].pair \in Pairs,
           NEW place \in {"store", "done"}, NEW price \in Price, With(t, place, price)
    PROVE  call' \in [Threads -> {Idle} \cup Waiting \cup Holding]
<1>1. [at |-> place, pair |-> call[t].pair, price |-> price] \in Holding
  BY DEF Holding
<1> QED
  BY <1>1 DEF With, TypeOK

LEMMA RememberType ==
    ASSUME TypeOK, NEW t \in Threads, call[t].pair \in Pairs, call[t].begun \in 0..now,
           NEW price \in Price, Remember(t, price)
    PROVE  /\ memory' \in [Procs -> [Pairs -> Remembered \cup {None}]]
           /\ call' \in [Threads -> {Idle} \cup Waiting \cup Holding]
<1>1. [price |-> price, at |-> call[t].begun] \in Remembered
  BY DEF Remembered
<1>2. home[t] \in Procs
  BY DEF TypeOK
<1> QED
  BY <1>1, <1>2, WithType DEF Remember, TypeOK

LEMMA TypeInit == Init => TypeOK
<1> SUFFICES ASSUME Init PROVE TypeOK
  OBVIOUS
<1>1. now = 0 /\ -Gap \in (-Gap)..now
  BY TimesAre DEF Init
<1> QED
  BY <1>1 DEF Init, TypeOK, Empty

\* What has its type keeps it as time passes.
LEMMA TypeTick ==
    ASSUME TypeOK, Tick
    PROVE  TypeOK'
<1>1. now \in Nat /\ now' = now + 1
  BY DEF TypeOK, Tick
<1>2. 0..now \subseteq 0..now' /\ (-Gap)..now \subseteq (-Gap)..now'
  BY <1>1, TimesAre
<1>3. Price \subseteq Price' /\ Tickers \subseteq Tickers' /\ Waiting \subseteq Waiting'
  BY <1>2 DEF Price, Tickers, Waiting
<1>4. Remembered \subseteq Remembered' /\ Holding \subseteq Holding'
  BY <1>2, <1>3 DEF Remembered, Holding
<1>5. /\ table' \in [Pairs -> Price' \cup {None}]
      /\ tickers' \in [Procs -> Tickers' \cup {None}]
  BY <1>3 DEF TypeOK, Tick
<1>6. memory' \in [Procs -> [Pairs -> Remembered' \cup {None}]]
  BY <1>4 DEF TypeOK, Tick
<1>7. call' \in [Threads -> {Idle} \cup Waiting' \cup Holding']
  BY <1>3, <1>4 DEF TypeOK, Tick
<1>8. last' \in [Procs -> (-Gap)..now'] /\ sent' \in [Threads -> (-Gap)..now']
  BY <1>2 DEF TypeOK, Tick
<1>9. now' \in Nat /\ home' \in [Threads -> Procs]
  BY <1>1 DEF TypeOK, Tick
<1> QED
  BY <1>5, <1>6, <1>7, <1>8, <1>9 DEF TypeOK, Price, Tickers, Remembered, Waiting, Holding

\* While time stands still, a step only has to give the values their types.
LEMMA TypeStep ==
    ASSUME TypeOK, NEW t \in Threads, Step(t), At(t, "exchange") => sent[t] >= 0
    PROVE  TypeOK'
<1>1. now' = now /\ home' = home /\ now \in Nat /\ home[t] \in Procs
  BY DEF Step, Begin, ReadRow, ReadMemory, Compute, Wait, Ask, Answer, Fail, Store,
         Accept, Refuse, Sample, Return, TypeOK
<1>2. Price' = Price /\ Tickers' = Tickers
  BY <1>1 DEF Price, Tickers
<1>3. Remembered' = Remembered /\ Waiting' = Waiting /\ Holding' = Holding
  BY <1>1, <1>2 DEF Remembered, Waiting, Holding
<1> DEFINE TableType == table' \in [Pairs -> Price \cup {None}]
           MemoryType == memory' \in [Procs -> [Pairs -> Remembered \cup {None}]]
           TickersType == tickers' \in [Procs -> Tickers \cup {None}]
           TimesType == /\ last' \in [Procs -> (-Gap)..now]
                        /\ sent' \in [Threads -> (-Gap)..now]
           CallType == call' \in [Threads -> {Idle} \cup Waiting \cup Holding]
<1>4. SUFFICES TableType /\ MemoryType /\ TickersType /\ TimesType /\ CallType
  BY <1>1, <1>2, <1>3 DEF TypeOK
<1>5. ASSUME NEW made \in 0..now PROVE Quoted(made) \in Price
  BY <1>1 DEF Quoted, Price
<1>6. ASSUME NEW pair \in Pairs, Begin(t, pair)
      PROVE  TableType /\ MemoryType /\ TickersType /\ TimesType /\ CallType
  <2>1. [at |-> "table", pair |-> pair, begun |-> now, wake |-> 0] \in Waiting
    BY <1>1 DEF Waiting
  <2> QED
    BY <1>6, <2>1 DEF Begin, TypeOK
<1>7. CASE ReadRow(t)
  <2>1. call[t].pair \in Pairs /\ table[call[t].pair] \in Price
    BY <1>7, WaitingAt DEF ReadRow, FreshRow, TypeOK
  <2>2. CallType
    BY <1>7, <2>1, WithType DEF ReadRow
  <2> QED
    BY <1>7, <2>2 DEF ReadRow, TypeOK
<1>8. CASE ReadMemory(t)
  <2>1. call[t].pair \in Pairs /\ Memory(t) \in Remembered
    BY <1>1, <1>8, WaitingAt DEF ReadMemory, FreshMemory, Memory, TypeOK
  <2>2. CallType
    BY <1>8, <2>1, WithType DEF ReadMemory, Remembered
  <2> QED
    BY <1>8, <2>2 DEF ReadMemory, TypeOK
<1>9. CASE Compute(t)
  <2>1. call[t].pair \in Pairs /\ call[t].begun \in 0..now
    BY <1>9, WaitingAt DEF Compute
  <2>2. tickers[home[t]] \in Tickers
    BY <1>1, <1>9 DEF Compute, FreshTickers, TypeOK
  <2>3. Quoted(tickers[home[t]].made) \in Price
    BY <1>5, <2>2 DEF Tickers
  <2>4. MemoryType /\ CallType
    BY <1>9, <2>1, <2>3, RememberType DEF Compute
  <2> QED
    BY <1>9, <2>4 DEF Compute, TypeOK
<1>10. CASE Wait(t)
  <2>1. call[t] \in Waiting
    BY <1>10, WaitingAt DEF Wait
  <2>2. Wake(home[t]) \in Nat
    BY <1>1, TimesAre DEF Wake, TypeOK
  <2>3. [call[t] EXCEPT !.at = "sleep", !.wake = Wake(home[t])] \in Waiting
    BY <2>1, <2>2 DEF Waiting
  <2>4. CallType
    BY <1>10, <2>3 DEF Wait, TypeOK
  <2> QED
    BY <1>10, <2>4 DEF Wait, TypeOK
<1>11. CASE Ask(t)
  <2>1. call[t] \in Waiting
    BY <1>11, WaitingAt DEF Ask
  <2>2. [call[t] EXCEPT !.at = "exchange", !.wake = 0] \in Waiting
    BY <2>1 DEF Waiting
  <2>3. CallType
    BY <1>11, <2>2 DEF Ask, TypeOK
  <2>4. now \in (-Gap)..now
    BY <1>1, TimesAre
  <2> QED
    BY <1>1, <1>11, <2>3, <2>4 DEF Ask, TypeOK
<1>12. CASE Answer(t) \/ Fail(t)
  <2>0. sent[t] \in 0..now
    BY <1>1, <1>12, TimesAre DEF Answer, Fail, TypeOK
  <2>1. call[t].pair \in Pairs /\ call[t].begun \in 0..now
    BY <1>12, WaitingAt DEF Answer, Fail
  <2>2. MemoryType /\ CallType
    BY <1>5, <1>12, <2>0, <2>1, RememberType DEF Answer, Fail
  <2>3. [at |-> now, made |-> sent[t]] \in Tickers
    BY <1>1, <2>0 DEF Tickers
  <2> QED
    BY <1>1, <1>12, <2>2, <2>3 DEF Answer, Fail, TypeOK
<1>13. CASE Store(t)
  <2>1. call[t].pair \in Pairs /\ call[t].price \in Price
    BY <1>13, HoldingAt DEF Store
  <2>2. CallType
    BY <1>13, <2>1, WithType DEF Store
  <2> QED
    BY <1>13, <2>1, <2>2 DEF Store, TypeOK
<1>14. CASE Accept(t) \/ Refuse(t) \/ Sample(t)
  BY <1>14 DEF Accept, Refuse, Sample, Return, TypeOK
<1> QED
  BY <1>6, <1>7, <1>8, <1>9, <1>10, <1>11, <1>12, <1>13, <1>14 DEF Step

\* A process ends with its threads.
LEMMA TypeRestart ==
    ASSUME TypeOK, NEW p \in Procs, Restart(p)
    PROVE  TypeOK'
<1>1. now' = now /\ now \in Nat
  BY DEF Restart, TypeOK
<1>2. Price' = Price /\ Tickers' = Tickers
  BY <1>1 DEF Price, Tickers
<1>3. Remembered' = Remembered /\ Waiting' = Waiting /\ Holding' = Holding
  BY <1>1, <1>2 DEF Remembered, Waiting, Holding
<1>4. -Gap \in (-Gap)..now
  BY <1>1, TimesAre
<1>5. Empty \in [Pairs -> Remembered \cup {None}]
  BY DEF Empty
<1>6. memory' \in [Procs -> [Pairs -> Remembered \cup {None}]]
  BY <1>5 DEF Restart, TypeOK
<1>7. call' \in [Threads -> {Idle} \cup Waiting \cup Holding]
  BY DEF Restart, TypeOK
<1>8. last' \in [Procs -> (-Gap)..now] /\ sent' \in [Threads -> (-Gap)..now]
  BY <1>4 DEF Restart, TypeOK
<1>9. tickers' \in [Procs -> Tickers \cup {None}]
  BY DEF Restart, TypeOK
<1> QED
  BY <1>1, <1>2, <1>3, <1>6, <1>7, <1>8, <1>9 DEF Restart, TypeOK

LEMMA TypeNext == TypeOK /\ CallsInTime /\ [Next]_vars => TypeOK'
<1> SUFFICES ASSUME TypeOK, CallsInTime, [Next]_vars
             PROVE  TypeOK'
  OBVIOUS
<1>1. CASE UNCHANGED vars
  BY <1>1 DEF vars, TypeOK, Price, Tickers, Remembered, Waiting, Holding
<1>2. ASSUME NEW t \in Threads, Step(t) PROVE TypeOK'
  BY <1>2, TypeStep DEF CallsInTime, CallInTime
<1> QED
  BY <1>1, <1>2, TypeTick, TypeRestart DEF Next

-----------------------------------------------------------------------------
(* The ages of what is kept. *)

\* Of what is kept in a process or in the table, time passing changes nothing.
LEMMA KeptNext ==
    ASSUME TypeOK, CallsInTime, TickersRest, TableRests, MemoryRests, [Next]_vars
    PROVE  TickersRest' /\ TableRests' /\ MemoryRests'
<1> USE TimesAre
<1>1. CASE UNCHANGED <<tickers, table, memory>>
  BY <1>1 DEF TickersRest, TableRests, MemoryRests, Rests
<1>2. ASSUME NEW t \in Threads, Compute(t) \/ Answer(t) \/ Fail(t)
      PROVE  TickersRest' /\ TableRests' /\ MemoryRests'
  <2>1. /\ call[t].pair \in Pairs /\ call[t].begun \in 0..now
        /\ home[t] \in Procs /\ now \in Nat
    BY <1>2, WaitingAt DEF Compute, Answer, Fail, TypeOK
  <2>2. At(t, "exchange") => sent[t] \in 0..now /\ now - sent[t] =< Latency
    BY <2>1 DEF CallsInTime, CallInTime, TypeOK
  <2>3. PICK made \in 0..now : Remember(t, Quoted(made)) /\ now - made < TTL + Latency
    <3>1. CASE Compute(t)
      <4>1. tickers[home[t]] # None /\ tickers[home[t]] \in Tickers
        BY <2>1, <3>1 DEF Compute, FreshTickers, TypeOK
      <4> QED
        BY <2>1, <3>1, <4>1 DEF Compute, FreshTickers, TickersRest, Tickers
    <3> QED
      BY <1>2, <2>1, <2>2, <3>1 DEF Answer, Fail
  <2>4. Rests(Quoted(made)) /\ call[t].begun =< Quoted(made).stamp
    BY <2>1, <2>3 DEF Quoted, Rests
  <2>5. MemoryRests'
    <3> SUFFICES ASSUME NEW p \in Procs, NEW pair \in Pairs, memory'[p][pair] # None
                 PROVE  /\ Rests(memory'[p][pair].price)
                        /\ memory'[p][pair].at =< memory'[p][pair].price.stamp
      BY DEF MemoryRests, Rests
    <3>1. CASE p = home[t] /\ pair = call[t].pair
      <4>1. memory'[p][pair] = [price |-> Quoted(made), at |-> call[t].begun]
        BY <2>1, <2>3, <3>1 DEF Remember, TypeOK
      <4> QED
        BY <2>4, <4>1
    <3>2. CASE ~ (p = home[t] /\ pair = call[t].pair)
      <4>1. memory'[p][pair] = memory[p][pair]
        BY <2>1, <2>3, <3>2 DEF Remember, TypeOK
      <4> QED
        BY <4>1 DEF MemoryRests
    <3> QED
      BY <3>1, <3>2
  <2>6. TickersRest'
    <3>1. CASE UNCHANGED tickers
      BY <3>1 DEF TickersRest
    <3>2. CASE Answer(t)
      <4>1. sent[t] =< now /\ now - sent[t] =< Latency
        BY <2>1, <2>2, <3>2 DEF Answer
      <4> QED
        BY <2>1, <3>2, <4>1 DEF Answer, TickersRest, TypeOK
    <3> QED
      BY <1>2, <3>1, <3>2 DEF Compute, Fail
  <2> QED
    BY <1>2, <2>5, <2>6 DEF Compute, Answer, Fail, TableRests, Rests
<1>3. ASSUME NEW t \in Threads, Store(t)
      PROVE  TickersRest' /\ TableRests' /\ MemoryRests'
  <2>1. call[t].pair \in Pairs /\ Rests(call[t].price)
    BY <1>3, HoldingAt DEF Store, CallsInTime, CallInTime
  <2>2. TableRests'
    BY <1>3, <2>1 DEF Store, TableRests, Rests, TypeOK
  <2> QED
    BY <1>3, <2>2 DEF Store, TickersRest, MemoryRests, Rests
<1>4. ASSUME NEW p \in Procs, Restart(p)
      PROVE  TickersRest' /\ TableRests' /\ MemoryRests'
  BY <1>4 DEF Restart, TickersRest, TableRests, MemoryRests, Rests, TypeOK, Empty
<1> QED
  BY <1>1, <1>2, <1>3, <1>4 DEF Next, Step, vars, Begin, ReadRow, ReadMemory, Wait, Ask,
     Accept, Refuse, Sample, Return, Tick

\* A thread that is let go or has just begun is in time; the others stay as they were.
LEMMA OthersInTime ==
    ASSUME TypeOK, CallsInTime, NEW t \in Threads, now' = now,
           \A u \in Threads \ {t} : call'[u] = call[u] /\ sent'[u] = sent[u],
           CallInTime(t)'
    PROVE  CallsInTime'
BY DEF CallsInTime, CallInTime, At, Rests

LEMMA HeldInTime ==
    ASSUME TypeOK, CallsInTime, NEW t \in Threads, now' = now, sent' = sent,
           NEW place \in {"store", "done"}, NEW price \in Price, With(t, place, price),
           Rests(price),
           IF place = "store" THEN now - price.stamp =< Stall
                              ELSE now - price.stamp < TTL + Stall
    PROVE  CallsInTime'
<1>1. call'[t] = [at |-> place, pair |-> call[t].pair, price |-> price]
  BY DEF With, TypeOK
<1>2. CallInTime(t)'
  BY <1>1 DEF CallInTime, At, Rests
<1>3. \A u \in Threads \ {t} : call'[u] = call[u]
  BY DEF With, TypeOK
<1> QED
  BY <1>2, <1>3, OthersInTime

LEMMA CallsNext ==
    ASSUME TypeOK, TickersRest, TableRests, MemoryRests, CallsInTime, [Next]_vars
    PROVE  CallsInTime'
<1> USE TimesAre
<1>1. now \in Nat
  BY DEF TypeOK
<1>2. CASE UNCHANGED vars
  BY <1>2 DEF vars, CallsInTime, CallInTime, At, Rests
<1>3. ASSUME NEW t \in Threads, Step(t)
      PROVE  CallsInTime'
  <2>1. home[t] \in Procs
    BY DEF TypeOK
  <2>2. ASSUME NEW pair \in Pairs, Begin(t, pair) PROVE CallsInTime'
    <3>1. call'[t] = [at |-> "table", pair |-> pair, begun |-> now, wake |-> 0]
      BY <2>2 DEF Begin, TypeOK
    <3>2. CallInTime(t)'
      BY <1>1, <2>2, <3>1 DEF Begin, CallInTime, At
    <3>3. now' = now /\ \A u \in Threads \ {t} : call'[u] = call[u] /\ sent'[u] = sent[u]
      BY <2>2 DEF Begin, TypeOK
    <3> QED
      BY <3>2, <3>3, OthersInTime
  <2>3. CASE ReadRow(t)
    <3>1. /\ call[t].pair \in Pairs /\ table[call[t].pair] \in Price
          /\ table[call[t].pair] # None /\ now - table[call[t].pair].stamp < TTL
      BY <2>3, WaitingAt DEF ReadRow, FreshRow, TypeOK
    <3>2. Rests(table[call[t].pair])
      BY <3>1 DEF TableRests
    <3>3. now - table[call[t].pair].stamp < TTL + Stall
      BY <1>1, <3>1 DEF Price
    <3> QED
      BY <2>3, <3>1, <3>2, <3>3, HeldInTime DEF ReadRow
  <2>4. CASE ReadMemory(t)
    <3> DEFINE price == Memory(t).price
    <3>1. /\ call[t].pair \in Pairs /\ call[t].begun \in 0..now
          /\ now - call[t].begun =< Stall
      BY <2>4, WaitingAt DEF ReadMemory, CallsInTime, CallInTime
    <3>2. Memory(t) # None /\ Memory(t) \in Remembered /\ call[t].begun - Memory(t).at < TTL
      BY <2>1, <2>4, <3>1 DEF ReadMemory, FreshMemory, Memory, TypeOK
    <3>3. Rests(price) /\ Memory(t).at =< price.stamp
      BY <2>1, <3>1, <3>2 DEF MemoryRests, Memory
    <3>4. price \in Price /\ Memory(t).at \in 0..now
      BY <3>2 DEF Remembered
    <3>5. now - price.stamp < TTL + Stall
      BY <1>1, <3>1, <3>2, <3>3, <3>4 DEF Price
    <3> QED
      BY <2>4, <3>3, <3>4, <3>5, HeldInTime DEF ReadMemory
  <2>5. ASSUME NEW made \in 0..now, now - made < TTL + Latency, UNCHANGED <<now, sent>>,
               Remember(t, Quoted(made))
        PROVE  CallsInTime'
    <3>1. Quoted(made) \in Price /\ Rests(Quoted(made)) /\ now - Quoted(made).stamp =< Stall
      BY <1>1, <2>5 DEF Quoted, Price, Rests
    <3> QED
      BY <2>5, <3>1, HeldInTime DEF Remember
  <2>6. CASE Compute(t)
    <3>1. tickers[home[t]] # None /\ tickers[home[t]] \in Tickers
          /\ now - tickers[home[t]].at < TTL
      BY <2>1, <2>6 DEF Compute, FreshTickers, TypeOK
    <3>2. tickers[home[t]].made \in 0..now /\ now - tickers[home[t]].made < TTL + Latency
      BY <1>1, <2>1, <3>1 DEF TickersRest, Tickers
    <3> QED
      BY <2>5, <2>6, <3>2 DEF Compute
  <2>7. CASE Answer(t) \/ Fail(t)
    <3>1. sent[t] \in 0..now /\ now - sent[t] < TTL + Latency
      BY <1>1, <2>7 DEF Answer, Fail, CallsInTime, CallInTime, TypeOK
    <3> QED
      BY <2>5, <2>7, <3>1 DEF Answer, Fail
  <2>8. CASE Wait(t)
    <3>1. call'[t].at = "sleep"
      BY <2>8, WaitingAt DEF Wait, TypeOK, Waiting
    <3>2. now' = now /\ \A u \in Threads \ {t} : call'[u] = call[u] /\ sent'[u] = sent[u]
      BY <2>8 DEF Wait, TypeOK
    <3>3. CallInTime(t)'
      BY <3>1 DEF CallInTime, At
    <3> QED
      BY <3>2, <3>3, OthersInTime
  <2>9. CASE Ask(t)
    <3>1. call'[t].at = "exchange"
      BY <2>9, WaitingAt DEF Ask, TypeOK, Waiting
    <3>2. sent'[t] = now /\ now' = now
      BY <2>9 DEF Ask, TypeOK
    <3>3. CallInTime(t)'
      BY <1>1, <3>1, <3>2 DEF CallInTime, At
    <3>4. \A u \in Threads \ {t} : call'[u] = call[u] /\ sent'[u] = sent[u]
      BY <2>9 DEF Ask, TypeOK
    <3> QED
      BY <3>2, <3>3, <3>4, OthersInTime
  <2>10. CASE Store(t)
    <3>1. call[t].price \in Price /\ Rests(call[t].price) /\ now - call[t].price.stamp =< Stall
      BY <2>10, HoldingAt DEF Store, CallsInTime, CallInTime
    <3>2. now - call[t].price.stamp < TTL + Stall
      BY <1>1, <3>1 DEF Price
    <3> QED
      BY <2>10, <3>1, <3>2, HeldInTime DEF Store
  <2>11. CASE Accept(t) \/ Refuse(t) \/ Sample(t)
    <3>1. call'[t] = Idle /\ now' = now
      BY <2>11 DEF Accept, Refuse, Sample, Return, TypeOK
    <3>2. \A u \in Threads \ {t} : call'[u] = call[u] /\ sent'[u] = sent[u]
      BY <2>11 DEF Accept, Refuse, Sample, Return, TypeOK
    <3>3. CallInTime(t)'
      BY <3>1 DEF CallInTime, At, Idle
    <3> QED
      BY <3>1, <3>2, <3>3, OthersInTime
  <2> QED
    BY <1>3, <2>2, <2>3, <2>4, <2>6, <2>7, <2>8, <2>9, <2>10, <2>11 DEF Step
<1>4. CASE Tick
  <2> SUFFICES ASSUME NEW t \in Threads PROVE CallInTime(t)'
    BY DEF CallsInTime
  <2>1. ~ Due(t) /\ CallInTime(t) /\ now' = now + 1 /\ call' = call /\ sent' = sent
    BY <1>4 DEF Tick, CallsInTime
  <2>2. At(t, "table") => call[t].begun \in 0..now
    BY WaitingAt
  <2>3. At(t, "store") => call[t].price \in Price
    BY HoldingAt
  <2>4. sent[t] \in Int
    BY DEF TypeOK
  <2> QED
    BY <1>1, <2>1, <2>2, <2>3, <2>4 DEF CallInTime, Due, At, Price, Rests
<1>5. ASSUME NEW p \in Procs, Restart(p) PROVE CallsInTime'
  <2> SUFFICES ASSUME NEW t \in Threads PROVE CallInTime(t)'
    BY DEF CallsInTime
  <2>1. CASE home[t] = p
    BY <1>5, <2>1 DEF Restart, CallInTime, At, Idle
  <2>2. CASE home[t] # p
    BY <1>5, <2>2 DEF Restart, CallsInTime, CallInTime, At, Rests
  <2> QED
    BY <2>1, <2>2
<1> QED
  BY <1>2, <1>3, <1>4, <1>5 DEF Next

-----------------------------------------------------------------------------
(* The gap between requests. *)

\* A thread reads a time of the last request, its own or a later one, before it sleeps,
\* and only its own request can be later than the one it slept on.
LEMMA SpacedNext ==
    ASSUME TypeOK, Spaced, [Next]_vars
    PROVE  Spaced'
<1> USE TimesAre
<1>1. now \in Nat /\ \A t \in Threads : home[t] \in Procs
  BY DEF TypeOK
<1>2. CASE UNCHANGED <<home, last, sent>>
           /\ \A t \in Threads : At(t, "sleep")' => call'[t] = call[t]
  BY <1>2 DEF Spaced, At
<1>3. ASSUME NEW u \in Threads, Wait(u) PROVE Spaced'
  <2>1. call'[u].wake = Wake(home[u])
    BY <1>3, WaitingAt DEF Wait, TypeOK, Waiting
  <2>2. Wake(home[u]) >= last[home[u]] + Gap
    BY <1>1 DEF Wake, TypeOK
  <2>3. Wake(home[u]) \in Int /\ last[home[u]] \in Int /\ sent[u] \in Int
    BY <1>1 DEF Wake, TypeOK
  <2>4. Wake(home[u]) >= sent[u] + Gap
    BY <2>2, <2>3 DEF Spaced
  <2>5. \A t \in Threads \ {u} : call'[t] = call[t]
    BY <1>3 DEF Wait, TypeOK
  <2> QED
    BY <1>3, <2>1, <2>4, <2>5 DEF Wait, Spaced, At
<1>4. ASSUME NEW u \in Threads, Ask(u) PROVE Spaced'
  <2>1. call'[u].at = "exchange" /\ \A t \in Threads \ {u} : call'[t] = call[t]
    BY <1>4, WaitingAt DEF Ask, TypeOK, Waiting
  <2>2. sent'[u] = now /\ \A t \in Threads \ {u} : sent'[t] = sent[t]
    BY <1>4 DEF Ask, TypeOK
  <2>3. last'[home[u]] = now /\ \A p \in Procs \ {home[u]} : last'[p] = last[p]
    BY <1>1, <1>4 DEF Ask, TypeOK
  <2>4. ASSUME NEW t \in Threads
        PROVE  /\ sent'[t] =< last'[home[t]]
               /\ call'[t].at = "sleep" => call'[t].wake >= sent'[t] + Gap
    <3>1. sent[t] =< now /\ sent[t] \in Int
      BY <1>1 DEF TypeOK
    <3> QED
      BY <1>1, <2>1, <2>2, <2>3, <3>1 DEF Spaced, At
  <2> QED
    BY <1>4, <2>4 DEF Ask, Spaced, At
<1>5. ASSUME NEW p \in Procs, Restart(p) PROVE Spaced'
  <2> SUFFICES ASSUME NEW t \in Threads
               PROVE  /\ sent'[t] =< last'[home[t]]
                      /\ call'[t].at = "sleep" => call'[t].wake >= sent'[t] + Gap
    BY <1>5 DEF Restart, Spaced, At
  <2>1. CASE home[t] = p
    BY <1>1, <1>5, <2>1 DEF Restart, TypeOK, Idle
  <2>2. CASE home[t] # p
    BY <1>1, <1>5, <2>2 DEF Restart, Spaced, At, TypeOK
  <2> QED
    BY <2>1, <2>2
<1>6. ASSUME NEW t \in Threads, Step(t), ~ Wait(t), ~ Ask(t)
      PROVE  UNCHANGED <<home, last, sent>>
             /\ \A u \in Threads : At(u, "sleep")' => call'[u] = call[u]
  BY <1>6 DEF Step, Begin, ReadRow, ReadMemory, Compute, Answer, Fail, Store, Accept,
     Refuse, Sample, Return, Remember, With, At, Idle, TypeOK
<1> QED
  BY <1>2, <1>3, <1>4, <1>5, <1>6 DEF Next, vars, Tick

-----------------------------------------------------------------------------
(* The theorems. *)

LEMMA InvInit == Init => IInv
<1> SUFFICES ASSUME Init PROVE IInv
  OBVIOUS
<1>1. TypeOK
  BY TypeInit
<1>2. TickersRest /\ TableRests /\ MemoryRests
  BY DEF Init, Empty, TickersRest, TableRests, MemoryRests
<1>3. CallsInTime
  BY DEF Init, CallsInTime, CallInTime, At, Idle
<1>4. Spaced
  <2> SUFFICES ASSUME NEW t \in Threads
               PROVE  sent[t] =< last[home[t]] /\ call[t].at # "sleep"
    BY DEF Spaced, At
  <2>1. home[t] \in Procs
    BY DEF Init
  <2>2. last[home[t]] = -Gap /\ sent[t] = -Gap /\ call[t].at = "idle"
    BY <2>1 DEF Init, Idle
  <2> QED
    BY <2>2, TimesAre
<1> QED
  BY <1>1, <1>2, <1>3, <1>4 DEF IInv

LEMMA InvNext == IInv /\ [Next]_vars => IInv'
<1> SUFFICES ASSUME IInv, [Next]_vars PROVE IInv'
  OBVIOUS
<1>1. TypeOK /\ TickersRest /\ TableRests /\ MemoryRests /\ CallsInTime /\ Spaced
  BY DEF IInv
<1>2. TypeOK'
  BY <1>1, TypeNext
<1>3. TickersRest' /\ TableRests' /\ MemoryRests'
  BY <1>1, KeptNext
<1>4. CallsInTime'
  BY <1>1, CallsNext
<1>5. Spaced'
  BY <1>1, SpacedNext
<1> QED
  BY <1>2, <1>3, <1>4, <1>5 DEF IInv

LEMMA InvAlways == Spec => []IInv
BY InvInit, InvNext, PTL DEF Spec

\* Every price, cache and call keeps its type: a timestamp is never in the future.
THEOREM TypeCorrect == Spec => []TypeOK
<1>1. IInv => TypeOK
  BY DEF IInv
<1> QED
  BY <1>1, InvAlways, PTL

\* The price a swap is quoted at (get_conversion_amount) rests on data asked for within
\* the maximal age, one lifetime and one request: the caches of the processes and the
\* table do not renew each other.
THEOREM QuotesAreRecent == Spec => QuotesRestOnRecentData
<1>1. ASSUME IInv, NEW t \in Threads, Accept(t)
      PROVE  now - call[t].price.made < MaxAge + TTL + Latency
  <2>1. call[t].price \in Price /\ Rests(call[t].price)
    BY <1>1, HoldingAt DEF IInv, Accept, CallsInTime, CallInTime
  <2>2. now \in Nat /\ now - call[t].price.stamp =< MaxAge
    BY <1>1 DEF IInv, TypeOK, Accept, Valid
  <2> QED
    BY <2>1, <2>2, TimesAre DEF Rests, Price
<1>2. IInv => (\A t \in Threads : Accept(t) =>
                  now - call[t].price.made < MaxAge + TTL + Latency)
  BY <1>1
<1> QED
  BY <1>2, InvAlways, PTL DEF QuotesRestOnRecentData

\* The price fetch_and_record samples, which nothing validates, rests on data asked for
\* within two lifetimes, one request and one stall of the table.
THEOREM SamplesAreRecent == Spec => SamplesRestOnRecentData
<1>1. ASSUME IInv, NEW t \in Threads, Sample(t)
      PROVE  now - call[t].price.made < 2 * TTL + Latency + Stall
  <2>1. /\ call[t].price \in Price /\ Rests(call[t].price)
        /\ now - call[t].price.stamp < TTL + Stall
    BY <1>1, HoldingAt DEF IInv, Sample, CallsInTime, CallInTime
  <2>2. now \in Nat
    BY <1>1 DEF IInv, TypeOK
  <2> QED
    BY <2>1, <2>2, TimesAre DEF Rests, Price
<1>2. IInv => (\A t \in Threads : Sample(t) =>
                  now - call[t].price.made < 2 * TTL + Latency + Stall)
  BY <1>1
<1> QED
  BY <1>2, InvAlways, PTL DEF SamplesRestOnRecentData

\* Without a lock on _last_public_call, no thread asks the exchange twice within the gap.
THEOREM RequestsKeepTheGap == Spec => RequestsAreSpaced
<1>1. ASSUME IInv, NEW t \in Threads, Ask(t)
      PROVE  now - sent[t] >= Gap
  <2>1. call[t].wake \in Nat /\ now >= call[t].wake /\ call[t].wake >= sent[t] + Gap
    BY <1>1, WaitingAt DEF IInv, Ask, Spaced
  <2>2. now \in Nat /\ sent[t] \in Int
    BY <1>1, TimesAre DEF IInv, TypeOK
  <2> QED
    BY <2>1, <2>2, TimesAre
<1>2. IInv => (\A t \in Threads : Ask(t) => now - sent[t] >= Gap)
  BY <1>1
<1> QED
  BY <1>2, InvAlways, PTL DEF RequestsAreSpaced

=============================================================================
