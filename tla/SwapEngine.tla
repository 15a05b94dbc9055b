------------------------------ MODULE SwapEngine ------------------------------
(***************************************************************************)
(* The swap engine, its swap table and the two wallets, as the API, the    *)
(* administrator and the background threads drive them.                    *)
(*                                                                         *)
(* Every process that imported the engine has its own cache of swaps       *)
(* (_pending_swaps); the table is shared.  Under main.py the API and the   *)
(* background threads share one process (API = BG).  Under gunicorn        *)
(* --preload the threads stay in the master and the API runs in a forked   *)
(* worker (API # BG).                                                      *)
(*                                                                         *)
(* One call of an engine operation is one step.  The loops over swaps, the *)
(* settlement sweep and the deposit scan, first take a snapshot of their   *)
(* work and then handle one swap a step, so other calls come in between.   *)
(***************************************************************************)
EXTENDS SwapStore, FiniteSets

CONSTANTS
    Swaps,        \* swap ids
    ToCoin,       \* the coin each swap pays out
    API, BG,      \* the process of the API, and of the background threads
    Sweepers,     \* "loop": the settlement thread; "admin": the queue endpoint
    AdminTargets, \* the statuses an administrator sets
    Faults,       \* which of FaultKinds may happen
    Others,       \* confirmed transactions that are nobody's deposit
    Required,     \* the values of confirmations_required; 1 is every number > 0
    MaxSends      \* bound: payouts counted for one swap

\* "lost_answer": the wallet paid, and the call raised an error all the same.
\* "died": the process ended after the wallet paid, before the row was written.
\* "store_fault": a write to the table failed; the store logs it and goes on.
FaultKinds == {"lost_answer", "died", "store_fault"}

Procs == {API, BG}
ProcOf(w) == IF w = "loop" THEN BG ELSE API

\* A deposit goes by the id of its swap.
Transactions == Swaps \cup Others

ASSUME SweepersKnown == Sweepers \subseteq {"loop", "admin"}
ASSUME AdminTargetsKnown == AdminTargets \subseteq SwapStatuses
ASSUME FaultsKnown == Faults \subseteq FaultKinds
ASSUME RequiredKnown == Required \subseteq {0, 1}
ASSUME OthersAreApart == Swaps \cap Others = {}
ASSUME MaxSendsIsNat == MaxSends \in Nat

VARIABLES
    db,        \* the swaps table: a Row, or None
    cache,     \* _pending_swaps of each process: a Swap, or None
    alive,     \* which processes run
    sends,     \* how many payouts the wallet made for each swap
    confirmed, \* the transactions that are confirmed on the chain
    sweep,     \* the delayed swaps that a running settlement sweep still has
    scan,      \* the deposits that a running scan still has to hand over
    touched,   \* history: the swaps an administrator has acted on
    cleared    \* history: the swaps that went to settlement on a transaction
               \* with the required confirmations

engineVars == <<db, cache, alive, sends>>
loopVars   == <<sweep, scan>>
envVars    == <<confirmed, touched, cleared>>
vars       == <<engineVars, loopVars, envVars>>

TypeOK ==
    /\ db \in [Swaps -> Row \cup {None}]
    /\ cache \in [Procs -> [Swaps -> Swap \cup {None}]]
    /\ alive \in [Procs -> BOOLEAN]
    /\ sends \in [Swaps -> 0..MaxSends]
    /\ confirmed \subseteq Transactions
    /\ sweep \in [Sweepers -> SUBSET Swaps]
    /\ scan \subseteq Swaps
    /\ touched \subseteq Swaps
    /\ cleared \subseteq Swaps

Init ==
    /\ db = [s \in Swaps |-> None]
    /\ cache = [p \in Procs |-> [s \in Swaps |-> None]]
    /\ alive = [p \in Procs |-> TRUE]
    /\ sends = [s \in Swaps |-> 0]
    /\ confirmed = Others
    /\ sweep = [w \in Sweepers |-> {}]
    /\ scan = {}
    /\ touched = {}
    /\ cleared = {}

-----------------------------------------------------------------------------
(* Looking up and writing swaps. *)

Cached(p, s) == cache[p][s] # None
Lookup(p, s) == IF Cached(p, s) THEN cache[p][s] ELSE GetSwap(db[s])

\* Writes row r for s; the write of a faulty store leaves the table as it was.
Persist(s, r) ==
    \/ db' = [db EXCEPT ![s] = r]
    \/ "store_fault" \in Faults /\ db' = db

SetCache(p, s, o) == cache' = [cache EXCEPT ![p][s] = o]

\* The gunicorn workers leave when the master does.
Without(p) == IF p = BG THEN [q \in Procs |-> FALSE] ELSE [alive EXCEPT ![p] = FALSE]

\* The net amounts of a process's delayed swaps: its cache, then the table.
DelayedInCache(p, s) == Cached(p, s) /\ cache[p][s].status = "delayed"
DelayedInStore(s)    == db[s] # None /\ db[s].col = "delayed"
\* DelayedCachedOnly is a faulty variant, for the mutation checks.
DelayedCachedOnly(p) == {s \in Swaps : DelayedInCache(p, s)}
Delayed(p) == {s \in Swaps : DelayedInCache(p, s) \/ DelayedInStore(s)}
HoldOf(p, s) == IF DelayedInCache(p, s) THEN cache[p][s].net ELSE db[s].data.net

\* min(holds) is the hold; a quote above it is blocked.
LiquidityBlocked(p, coin, n) ==
    \E s \in Delayed(p) : ToCoin[s] = coin /\ n > HoldOf(p, s)

-----------------------------------------------------------------------------
(* _settle_swap of process p on swap s, which it has as o: the call either *)
(* returns, or raises SwapError, or fails to recalculate a late deposit.   *)

\* A late deposit is priced again at the current rate and fee.
Priced(o) ==
    IF o.status = "late_deposit" THEN {[o EXCEPT !.net = n] : n \in Amounts} ELSE {o}

Pay(s) == sends[s] < MaxSends /\ sends' = [sends EXCEPT ![s] = @ + 1]

Paid(p, s) ==
    /\ Pay(s)
    /\ SetCache(p, s, None)
    /\ Persist(s, CompleteSwap(db[s]))
    /\ UNCHANGED alive

\* Faulty variants of the two error paths, for the mutation checks.
DelayCompletes(p, s, o) ==
    /\ SetCache(p, s, [o EXCEPT !.status = "delayed"])
    /\ Persist(s, CompleteSwap(db[s]))
    /\ UNCHANGED <<sends, alive>>
DelayUnsaved(p, s, o) ==
    /\ SetCache(p, s, [o EXCEPT !.status = "delayed"])
    /\ UNCHANGED <<db, sends, alive>>

\* The wallet is short of coins: the settlement sweep will try again.
Delay(p, s, o) ==
    LET d == [o EXCEPT !.status = "delayed"] IN
    /\ SetCache(p, s, d)
    /\ Persist(s, UpdateSwap(db[s], d))
    /\ UNCHANGED <<sends, alive>>

\* Any other wallet error.  The status is set in memory only.
Fail(p, s, o) ==
    /\ SetCache(p, s, [o EXCEPT !.status = "failed"])
    /\ UNCHANGED <<db, alive>>

LoseAnswer(p, s, o) == "lost_answer" \in Faults /\ Pay(s) /\ Fail(p, s, o)

Die(p, s) ==
    /\ "died" \in Faults
    /\ Pay(s)
    /\ alive' = Without(p)
    /\ UNCHANGED <<db, cache>>

SettleReturns(p, s, o) ==
    \E q \in Priced(o) : Paid(p, s) \/ Delay(p, s, q) \/ Die(p, s)

SettleRaises(p, s, o) ==
    \E q \in Priced(o) :
        LoseAnswer(p, s, q) \/ (Fail(p, s, q) /\ UNCHANGED sends)

\* The recalculation raises after the swap was put into the cache.
RepriceFails(p, s, o) ==
    /\ o.status = "late_deposit"
    /\ SetCache(p, s, o)
    /\ UNCHANGED <<db, alive, sends>>

-----------------------------------------------------------------------------
(* confirm_deposit, which the API and the deposit scan call. *)

\* Faulty variant of EnoughConfirmations, for the mutation checks.
AnyConfirmations(t) == TRUE
\* The check of the transaction t that the caller names: it may be any the wallet
\* knows, and is not held against the swap.  With none required nothing is asked.
EnoughConfirmations(t) == 0 \in Required \/ t \in confirmed

\* NotOverridden is a faulty variant, for the mutation checks.
NotOverridden(o) == FALSE
Overridden(o) == o.admin \in AdminFinal

LateDeposit(p, s, o) ==
    LET d == [o EXCEPT !.status = "late_deposit"] IN
    /\ o.status \in IF Cached(p, s) THEN LateWhenCached ELSE LateWhenStored
    /\ SetCache(p, s, None)
    /\ Persist(s, UpdateSwap(db[s], d))
    /\ UNCHANGED <<alive, sends>>

\* Too few confirmations so far; more may come while the answer is on its way.
AwaitConfirmations(p, s, o) ==
    LET d == [o EXCEPT !.status = "awaiting_deposit"] IN
    /\ Required # {0}
    /\ Cached(p, s) /\ o.status \in Unconfirmed
    /\ SetCache(p, s, d)
    /\ Persist(s, UpdateSwap(db[s], d))
    /\ UNCHANGED <<alive, sends>>

\* The history goes by the chain, whatever the check says.
Record(s, t) ==
    cleared' = IF 0 \in Required \/ t \in confirmed THEN cleared \cup {s} ELSE cleared

\* What the check lets through goes to settlement; its status is not saved.
Confirmable(p, s, o, t) ==
    /\ Cached(p, s) /\ o.status \in Unconfirmed
    /\ EnoughConfirmations(t)
    /\ Record(s, t)
InProcessing(o) == [o EXCEPT !.status = "processing"]

ConfirmReturns(p, s, t) ==
    LET o == Lookup(p, s) IN
    /\ o # None
    /\ \/ Overridden(o) /\ UNCHANGED <<engineVars, cleared>>
       \/ /\ ~ Overridden(o)
          /\ \/ LateDeposit(p, s, o) /\ UNCHANGED cleared
             \/ AwaitConfirmations(p, s, o) /\ UNCHANGED cleared
             \/ Confirmable(p, s, o, t) /\ SettleReturns(p, s, InProcessing(o))

\* Unknown swaps, statuses that cannot be confirmed and wallet errors raise
\* without a change; a settlement that fails raises after its changes.
ConfirmRaises(p, s, t) ==
    LET o == Lookup(p, s)
        open == IF Cached(p, s) THEN LateWhenCached ELSE LateWhenStored IN
    \/ o = None /\ UNCHANGED <<engineVars, cleared>>
    \/ /\ o # None
       /\ ~ Overridden(o)
       /\ o.status \notin open
       /\ UNCHANGED <<engineVars, cleared>>
    \/ /\ o # None
       /\ ~ Overridden(o)
       /\ Confirmable(p, s, o, t)
       /\ SettleRaises(p, s, InProcessing(o))

-----------------------------------------------------------------------------
(* Users. *)

\* A fresh id; the circuit breaker may flag the swap.
CreateSwap(s, n, status) ==
    LET o == [status |-> status, admin |-> "absent", net |-> n] IN
    /\ alive[API]
    /\ db[s] = None /\ \A p \in Procs : ~ Cached(p, s)
    /\ sends[s] = 0 /\ s \notin confirmed \cup touched \cup cleared
    /\ ~ LiquidityBlocked(API, ToCoin[s], n)
    /\ SetCache(API, s, o)
    /\ Persist(s, AddSwap(o))
    /\ UNCHANGED <<alive, sends, loopVars, envVars>>

Deposit(s) ==
    /\ s \notin confirmed
    /\ db[s] # None \/ \E p \in Procs : Cached(p, s)
    /\ confirmed' = confirmed \cup {s}
    /\ UNCHANGED <<engineVars, loopVars, touched, cleared>>

UserConfirm(s, t) ==
    /\ alive[API]
    /\ ConfirmReturns(API, s, t) \/ ConfirmRaises(API, s, t)
    /\ UNCHANGED <<loopVars, confirmed, touched>>

\* The caller may be the user or the administrator.
CancelSwap(s) ==
    LET o == Lookup(API, s) IN
    /\ alive[API]
    /\ o # None
    /\ o.status \notin {"completed", "failed"}
    /\ SetCache(API, s, None)
    /\ Persist(s, UpdateSwap(db[s], [o EXCEPT !.status = "cancelled"]))
    /\ UNCHANGED <<alive, sends, loopVars, envVars>>

-----------------------------------------------------------------------------
(* The administrator. *)

Touch(s) == touched' = touched \cup {s} /\ UNCHANGED <<confirmed, cleared, loopVars>>

SetSwapStatus(s, t) ==
    LET o == Lookup(API, s)
        u == [o EXCEPT !.status = t, !.admin = t] IN
    /\ alive[API]
    /\ o # None
    /\ SetCache(API, s, IF Cached(API, s) /\ t \notin DroppedOnSet THEN u ELSE None)
    /\ Persist(s, UpdateSwap(db[s], u))
    /\ UNCHANGED <<alive, sends>>
    /\ Touch(s)

ClearAdminOverride(s) ==
    LET o == Lookup(API, s)
        u == [o EXCEPT !.admin = "null"] IN
    /\ alive[API]
    /\ o # None
    /\ o.admin \in SwapStatuses
    /\ SetCache(API, s, IF Cached(API, s) THEN u ELSE None)
    /\ Persist(s, UpdateSwap(db[s], u))
    /\ UNCHANGED <<alive, sends>>
    /\ Touch(s)

ReleaseCircuitBreaker(s) ==
    LET o == Lookup(API, s) IN
    /\ alive[API]
    /\ o # None
    /\ o.status = "circuit_breaker"
    /\ \/ SettleReturns(API, s, o) \/ SettleRaises(API, s, o)
       \/ /\ SetCache(API, s, None)
          /\ Persist(s, UpdateSwap(db[s], [o EXCEPT !.status = "cancelled"]))
          /\ UNCHANGED <<alive, sends>>
    /\ Touch(s)

\* The swap page's "settle": _settle_swap whatever the status is.
AdminSettle(s) ==
    LET o == Lookup(API, s) IN
    /\ alive[API]
    /\ o # None
    /\ SettleReturns(API, s, o) \/ SettleRaises(API, s, o) \/ RepriceFails(API, s, o)
    /\ Touch(s)

\* Pays the deposit out by hand and completes the row; the cache is not told.
SettleOrphaned(s) ==
    /\ alive[API]
    /\ db[s] # None
    /\ \/ /\ Pay(s)
          /\ Persist(s, UpdateStatus(db[s], "completed"))
          /\ UNCHANGED <<cache, alive>>
       \/ "lost_answer" \in Faults /\ Pay(s) /\ UNCHANGED <<db, cache, alive>>
       \/ Die(API, s)
    /\ Touch(s)

-----------------------------------------------------------------------------
(* The background threads. *)

StartSweep(w) ==
    /\ alive[ProcOf(w)]
    /\ sweep[w] = {}
    /\ sweep' = [sweep EXCEPT ![w] = Delayed(ProcOf(w))]
    /\ UNCHANGED <<engineVars, scan, envVars>>

\* One turn of process_delayed_swaps: _settle_swap looks the swap up again.
\* SwapError goes on to the next swap; a price error ends the sweep.
SweepOne(w, s) ==
    LET p == ProcOf(w)
        o == Lookup(p, s) IN
    /\ alive[p]
    /\ s \in sweep[w]
    /\ \/ /\ o = None
          /\ UNCHANGED engineVars
          /\ sweep' = [sweep EXCEPT ![w] = @ \ {s}]
       \/ /\ o # None
          /\ SettleReturns(p, s, o) \/ SettleRaises(p, s, o) \/ RepriceFails(p, s, o)
          /\ sweep' = [sweep EXCEPT ![w] = @ \ {s}]
       \/ /\ o # None
          /\ RepriceFails(p, s, o)
          /\ sweep' = [sweep EXCEPT ![w] = {}]
    /\ UNCHANGED <<scan, envVars>>

\* cleanup_expired_swaps: the set old is what passed the age limit.
ExpireSwaps(old) ==
    LET due == {s \in old : /\ db[s] # None
                            /\ db[s].col \in Expirable
                            /\ db[s].data.status \in Expirable} IN
    /\ alive[BG]
    /\ due # {}
    /\ \/ db' = [s \in Swaps |->
                    IF s \in due
                    THEN [col |-> "timed_out",
                          data |-> [db[s].data EXCEPT !.status = "timed_out"]]
                    ELSE db[s]]
       \/ "store_fault" \in Faults /\ db' = db
    /\ cache' = [cache EXCEPT ![BG] = [s \in Swaps |-> IF s \in due THEN None ELSE @[s]]]
    /\ UNCHANGED <<alive, sends, loopVars, envVars>>

\* The rows are read, then the wallets list their unspent outputs, some of
\* which are deposits, confirmed or not.
StartScan(seen) ==
    /\ alive[BG]
    /\ scan = {}
    /\ seen \subseteq {s \in Swaps : db[s] # None /\ db[s].col \notin NotScanned}
    /\ scan' = seen
    /\ UNCHANGED <<engineVars, sweep, envVars>>

\* safe_confirm_deposit, which is given the listed output: its handler of SwapError
\* fails in turn (it returns an unbound name), which ends the scan.
ScanOne(s) ==
    /\ alive[BG]
    /\ s \in scan
    /\ \/ ConfirmReturns(BG, s, s) /\ scan' = scan \ {s}
       \/ ConfirmRaises(BG, s, s) /\ scan' = {}
    /\ UNCHANGED <<sweep, confirmed, touched>>

-----------------------------------------------------------------------------
(* Processes. *)

Stop(p) ==
    /\ alive[p]
    /\ alive' = Without(p)
    /\ UNCHANGED <<db, cache, sends, loopVars, envVars>>

\* The service starts, loads the pending swaps and forks its worker.
Start ==
    /\ ~ alive[BG]
    /\ alive' = [p \in Procs |-> TRUE]
    /\ cache' = [p \in Procs |-> [s \in Swaps |-> PendingSwap(db[s])]]
    /\ sweep' = [w \in Sweepers |-> {}]
    /\ scan' = {}
    /\ UNCHANGED <<db, sends, envVars>>

\* The master forks a new worker, with the master's cache in it.
Respawn ==
    /\ alive[BG] /\ ~ alive[API]
    /\ alive' = [alive EXCEPT ![API] = TRUE]
    /\ cache' = [cache EXCEPT ![API] = cache[BG]]
    /\ sweep' = [w \in Sweepers |-> IF w = "admin" THEN {} ELSE sweep[w]]
    /\ UNCHANGED <<db, sends, scan, envVars>>

-----------------------------------------------------------------------------

UserStep(s) ==
    \/ \E n \in Amounts, st \in {"pending", "circuit_breaker"} : CreateSwap(s, n, st)
    \/ Deposit(s)
    \/ \E t \in Transactions : UserConfirm(s, t)
    \/ CancelSwap(s)

AdminStep(s) ==
    \/ \E t \in AdminTargets : SetSwapStatus(s, t)
    \/ ClearAdminOverride(s)
    \/ ReleaseCircuitBreaker(s)
    \/ AdminSettle(s)
    \/ SettleOrphaned(s)

BackgroundStep ==
    \/ \E w \in Sweepers : StartSweep(w) \/ \E s \in Swaps : SweepOne(w, s)
    \/ \E old \in SUBSET Swaps : ExpireSwaps(old)
    \/ \E seen \in SUBSET Swaps : StartScan(seen)
    \/ \E s \in Swaps : ScanOne(s)

ProcessStep ==
    \/ \E p \in Procs : Stop(p)
    \/ Start
    \/ Respawn

Next ==
    \/ \E s \in Swaps : UserStep(s) \/ AdminStep(s)
    \/ BackgroundStep
    \/ ProcessStep

Spec == Init /\ [][Next]_vars

-----------------------------------------------------------------------------
(* Properties. *)

\* The status column and the JSON of a row agree, except in a row that holds
\* a flagged swap as create_swap left it: queries by column and code that
\* reads the JSON see the same swap.
StatusColumnAgrees ==
    \A s \in Swaps : db[s] # None =>
        \/ db[s].col = db[s].data.status
        \/ /\ db[s].col = "pending"
           /\ db[s].data = [status |-> "circuit_breaker", admin |-> "absent",
                            net |-> db[s].data.net]

\* The wallet pays only swaps for which a confirmation named a transaction with the
\* required confirmations, unless an administrator stepped in: no order of
\* confirmations, retries, scans, restarts and stale caches takes another swap to
\* settlement.  (That the transaction is the swap's deposit is not checked.)
NoUnbackedPayout == \A s \in Swaps : sends[s] > 0 => s \in cleared \cup touched

\* A row reads "completed" only after a payout, unless an administrator set it.
CompletedMeansPaid ==
    \A s \in Swaps :
        db[s] # None /\ "completed" \in {db[s].col, db[s].data.status}
            => sends[s] > 0 \/ s \in touched

\* The wallet pays a swap that no administrator touched at most once.
PaidAtMostOnce == \A s \in Swaps \ touched : sends[s] =< 1

\* Once such a swap is paid its row says so, and no cache offers it for another
\* payment or for cancellation.
PaidIsRecorded ==
    \A s \in Swaps \ touched : sends[s] > 0 =>
        /\ db[s] # None /\ db[s].col = "completed"
        /\ \A p \in Procs : alive[p] => ~ Cached(p, s)

\* The cached copy of a swap has the status of its row, except after a failed
\* settlement, which is recorded in memory only.
CacheCoherent ==
    \A s \in Swaps \ touched, p \in Procs : alive[p] /\ Cached(p, s) =>
        /\ db[s] # None
        /\ \/ cache[p][s].status = db[s].data.status
           \/ cache[p][s].status = "failed"

\* A swap whose row is active is in the API's cache: confirm_deposit refuses
\* an active swap that it finds only in the table.
ActiveRowIsServed ==
    \A s \in Swaps \ touched :
        alive[API] /\ db[s] # None /\ db[s].col \in ActiveStates => Cached(API, s)

\* A user who has paid in was answered: paid out, or put before an administrator.
Answered(s) == sends[s] > 0 \/ (db[s] # None /\ db[s].col = "late_deposit")

\* A settlement failed after the swap was cancelled, or had expired, and was taken
\* out of the cache: the failed copy is back in the cache, where every scan meets
\* it, is refused and ends.
Stuck(s) ==
    /\ Cached(BG, s) /\ cache[BG][s].status = "failed"
    /\ db[s].col \notin Expirable \cup {"delayed"}

\* What the background threads do with s when they next come round.
SweepTakes(s)  == DelayedInCache(BG, s) \/ DelayedInStore(s)
ExpiryTakes(s) == db[s].col \in Expirable /\ db[s].data.status \in Expirable
ScanReports(s) ==
    LET o == Lookup(BG, s) IN
    /\ db[s].col \notin NotScanned
    /\ o.admin \notin AdminFinal
    /\ o.status \in IF Cached(BG, s) THEN LateWhenCached ELSE LateWhenStored

\* No confirmed deposit is overlooked.  However calls, failed settlements, expiries
\* and restarts have left a swap that no administrator touched, while it is not
\* answered one of the background threads looks at it and does not refuse it, but
\* for a Stuck copy.
DepositHasAWayOn ==
    alive[BG] =>
        \A s \in (confirmed \cap Swaps) \ touched :
            /\ db[s] # None
            /\ \/ Answered(s) \/ Stuck(s)
               \/ SweepTakes(s) \/ ExpiryTakes(s) \/ ScanReports(s)

-----------------------------------------------------------------------------
(* What the engine implements. *)

Completed == {s \in Swaps : db[s] # None /\ db[s].col = "completed"}

Ledger == INSTANCE SwapLedger
    WITH backed <- cleared, manual <- touched, payouts <- sends, settled <- Completed

\* The engine keeps the ledger's promise: each payout of a swap no administrator
\* took in hand is the first, has its grounds and is recorded in the same step.
ImplementsLedger == Ledger!LedgerSpec
=============================================================================
