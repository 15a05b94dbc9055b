# Formal models of OrdexSwap

OrdexSwap swaps two coins, OXC and OXG. A user asks for a swap, receives a
deposit address, pays in, and is paid out in the other coin once the deposit
has enough confirmations. This directory holds TLA+ models of the part of the
service that decides *whether and when it pays*, the TLC configurations that
check them on small instances, and machine-checked proofs of the main
properties for all values of the constants. Source paths below are relative to
`src/`; `engine:995` stands for line 995 of `app/swap-service/swap_engine.py`.

Contents: 1 the system, 2 what is hard in it, 3 the modules, 4 the runs,
5 the disagreements found, 6 the proofs, 7 what is left out, 8 the plan,
9 how to run it.

## 1. The system

One Python service, a SQLite file and two wallet daemons.

| Component | State | Operations | Talks to |
|---|---|---|---|
| Swap engine, `swap_engine.py` | `_pending_swaps` (a dict of mutable dicts, one per *process*), fees and limits copied from the settings | create, confirm, settle, cancel, administrator's status, override, release, orphan settlement and refund, delayed sweep | store, wallets, oracle, admin service |
| Swap store, `swap_history.py` | table `swaps`: a status column, the whole swap again as JSON, override columns | add, update (read, merge, write), complete, queries by status | SQLite through the pool |
| Cleanup job, `swap_cleanup.py` | a thread with a timer | time out old swaps, scan unspent outputs for deposits and confirm them | table directly, engine's cache, engine |
| Deployment, `entrypoint.sh`, `wsgi.py`, `main.py` | processes and threads | start, stop, shutdown handler, fork of a worker | all of them |
| Wallet client, `wallet_rpc.py` | none; the daemon holds coins and transactions | send, get transaction, list unspent, new address | wallet daemon |
| HTTP API, `api.py` | module globals, login sessions, CSRF tokens | 48 routes for users and administrators | engine, store, admin service |
| Price oracle, `price_oracle.py` | memory cache, table `price_cache`, ticker cache, time of the last public call | price, validation, conversion with fees | NestEx's public tickers |
| Price history, `price_history.py` | table of samples, a thread | sample every 30 s, backfill, statistics | oracle |
| Admin service, `admin_service.py` | users, settings, audit logs, wallet addresses, acknowledged transactions | login, settings, acknowledgements | SQLite |
| Database pool, `db_pool.py` | one connection per thread | one commit, or rollback, per context | SQLite |
| Migrations, `migrations/` | table `schema_migrations` | apply what is not applied | SQLite |
| Backup and restore, `backup.py`, `restore.py` | archives, a scratch directory | dump, archive, retention, restore | files |
| Daemon manager, first start | external processes | start, stop, wait | wallet daemons |
| Front end, scripts, tools | none of the service's | | HTTP |

How they interact. The API's threads, the settlement thread and the cleanup
thread call the engine *directly*; there is no queue and no lock. Under
`main.py` they share one process and one cache. Under `entrypoint.sh:12`
(`gunicorn --workers 1 --threads 4 --preload`) `wsgi.py` starts the background
threads while the master imports it, and the API runs in a forked worker: two
processes, two caches, one table. The table has no notion of who is working on
a swap; queries read the status column, the engine reads the JSON.

What makes each component correct:

* engine: a swap is paid only when a confirmation has passed, at most once, and its
  record says so; an administrator's decision stands;
* store: column and JSON of a row tell the same status; nothing but a payout (or
  an administrator) makes a row read *completed*;
* cache: it holds what the rows say, and every swap that may still be confirmed
  is in it, since the engine refuses an active swap it finds only in the table;
* cleanup: it times out no swap that is being paid, and a deposit that arrived
  is eventually handed over;
* oracle: no price older than the limit is quoted, and the public API is not
  called faster than its gap;
* admin service: the settings the engine uses are the settings stored; an
  acknowledged transaction is not paid again;
* migrations, backup: a crash between two steps leaves something the next start
  can go on from; the newest archives survive.

## 2. What is hard

`PROJECT.json` lists the hazards with their lines. The ones that shaped the
models:

* **Stale state.** `_settle_swap` prefers the cached swap to its row
  (`engine:995`) and checks no status; sweeps and scans work from snapshots
  (`engine:1255`, `swap_cleanup.py:125`).
* **Two processes.** What one process does to a swap the other's cache does not
  learn, except by a restart.
* **Any transaction.** A confirmation names a transaction and the engine asks the wallet
  for its confirmations only (`engine:497`); with none required it asks nothing.
* **Threads.** `confirm_deposit` checks the status, waits for the wallet and
  then writes the status; `update_swap` reads, merges in Python and writes; and
  all threads that find a swap in the cache share one mutable dict.
* **Partial failure.** The wallet paid but the answer was lost; the process ended
  before the row was written; the store logs a failed write and returns; a
  failed settlement is recorded in memory only.
* **Restarts.** The cache is rebuilt from rows in four statuses
  (`swap_history.py`, `get_pending_swaps`).
* **An odd abort.** `safe_confirm_deposit`'s handler returns an unbound name
  (`engine:541`), so one refused deposit ends the whole scan.
* **Pay, then record.** Settling or refunding a stray deposit checks whether it
  was handled, pays, and then records it, in three steps that a second
  administrator, a crash or a failed write can come between; and the table the
  check reads is created by nothing (`admin_service.py:352`).
* **Change, then record.** A migration's effect is durable before its row in
  `schema_migrations` is (`migrate_schema.py:257`), and the start scripts, which an
  operator may run as well, decide by what they read before.
* **Nobody helps.** The loops pass over statuses and stop at refusals; what they
  pass over has to be reached some other way, or a user waits for ever.
* **One scratch directory.** Backup runs of the service and of an operator share it
  (`backup.py:177`), and a restore copies, removes and refills the database under
  the running service (`restore.py:88`).
* **Clocks upon clocks.** A price passes through tickers, remembered prices, a
  shared table and a validation, each with its own idea of age.

## 3. The modules

    SwapStatus           the statuses and the sets of them
       |
    SwapStore            rows, dicts, merge, what a write leaves behind
       |        \
    SwapEngine   SwapThreads        whole calls      |  calls cut at every access
       |    \        |
       |     \       +-- ImplementsEngine  (until calls overlap, refines SwapEngine)
       |      +-- ImplementsLedger == Ledger!LedgerSpec  (refines SwapLedger)
       +-- SwapProgress                      fairness and liveness of SwapEngine

    SwapEngineProofs -> OneProcessProofs
    SwapThreadsProofs -> ThreadsEngineProofs

    WalletAudit   stray deposits, withdrawals, the report    <- WalletAuditProofs
    PriceOracle   caches, validation, rate limiter           <- PriceOracleProofs
    ServiceStart  migrations, settings, the server's start   <- ServiceStartProofs
    Backups       archives, retention, restore               <- BackupsProofs

    MCSwapEngine, MCSwapProgress, MCSwapThreads, MCWalletAudit, MCPriceOracle,
    MCServiceStart, MCBackups         instances for TLC

**SwapStatus** gives the thirteen statuses and every set the code branches on,
e.g. `LateWhenStored` and `LateWhenCached`: `confirm_deposit` accepts different
statuses as late deposits in its two branches. `VALID_STATE_TRANSITIONS` is in
the source but nothing in the engine consults it, so it is not here.

**SwapStore** is the table. A row is `[col, data]`: the status column and the
JSON. `UpdateSwap` merges as `update_swap` does (a key the update lacks
survives), `AddSwap` writes `pending` in the column whatever the JSON says, and
`CompleteSwap` re-reads the row, so what the engine changed only in memory, such
as `reconciled`, never reaches it. Writing to a missing row does nothing.
Payload that no property depends on is left out; of the amounts the net amount
is kept because the liquidity hold compares it.

**SwapEngine** is the service at the grain of one call.

| In the model | In the code |
|---|---|
| `db`, `cache[p]`, `alive` | the table; `_pending_swaps` of process p; which processes run |
| `API`, `BG` | the process of the requests and of the threads: equal under `main.py`, different under gunicorn |
| `sends`, `confirmed` | what the wallets did, and the transactions that are confirmed: a swap's deposit, under the swap's id, and `Others`, which are nobody's; seen by the code only through RPC answers |
| `sweep[w]`, `scan` | the snapshot a running loop still has to work through (`"loop"`: the settlement thread; `"admin"`: the queue endpoint) |
| `touched`, `cleared` | history only: an administrator has acted on the swap; it went to settlement on a transaction that had the required confirmations |
| `EnoughConfirmations(t)` | the check of `engine:497-511`, of whatever transaction `t` the caller names |
| `SettleReturns`, `SettleRaises`, `RepriceFails` | the outcomes of `_settle_swap`: paid, delayed, died; failed, answer lost; late deposit that cannot be priced |
| `ConfirmReturns`, `ConfirmRaises` | `confirm_deposit`, apart because the scan ends when it raises |
| `CreateSwap`, `UserConfirm`, `CancelSwap` | the user's endpoints; `LiquidityBlocked` is the hold for delayed swaps |
| `SetSwapStatus`, `ClearAdminOverride`, `ReleaseCircuitBreaker`, `AdminSettle`, `SettleOrphaned` | the administrator's endpoints |
| `StartSweep`, `SweepOne` | `process_delayed_swaps` |
| `ExpireSwaps`, `StartScan`, `ScanOne` | the cleanup job |
| `Stop`, `Start`, `Respawn` | the end of a process, the service's start, the fork of a new worker from the master |

`Required` holds the values `confirmations_required` may have, 0 and 1 (for every number
above 0). The engine reads the setting at its start and the endpoint accepts 0
(`admin_service.py:590`, `api.py:1486`); with 0 in the set any call may skip the check, as
`engine:497` does. A user's confirmation names any of `Transactions` (`api.py:519`): the
engine holds it neither against the swap's address nor against its amount, and the model
does not either. A scan names the deposit it found.

`Faults` selects what may go wrong: `lost_answer`, `died`, `store_fault`.
Which swaps are old enough to expire and which deposits the wallet lists is
nondeterministic, so clocks and amounts received need no variables. A call is
one step; loops take one swap a step, so that other calls come in between. That
a call is one step is an assumption, and SwapThreads examines it.

**SwapLedger** says what a swap service promises whatever it is built from:
a payout is the first for its swap, is made on grounds that someone has given and that
stay (in SwapEngine: a confirmation let it through, `cleared`), and is recorded in the
same step; an administrator who takes a swap in hand takes it out of the
promise. `ImplementsLedger` in SwapEngine maps it: `settled` is the set of rows
whose column reads *completed*.

**SwapProgress** is SwapEngine without an administrator, under fairness
(`FairSpec`): what the two background threads get done on their own, from whatever
state users, refusals and restarts have left. It adds no state and no step.

| In the model | In the code |
|---|---|
| `Sweeping` | `_settlement_loop`: sleep, sweep, again; a sweep takes one swap after the other |
| `Expiring` | `_cleanup_loop`: expire what has grown old |
| `WalletsAreFilled` | a swap that is tried again and again meets a wallet with coins |
| `Restarted` | the container's restart policy, gunicorn's arbiter |
| `Rest` | users and restarts, which stop some time |

**SwapThreads** follows one swap in one process with every call cut at its
accesses: look up in the cache, read the row, ask the wallet, get its answer,
read the row for a merge, write it. `heap` holds the swap objects, `cached` says
which one `_pending_swaps` refers to and `ref[t]` which one thread t works on, so
that two threads that found the swap in the cache share it, as Python's dicts are
shared. `op[t]` and `pc[t]` say which call a thread is in and where. The engine takes no
lock and neither does the model.

Two history variables speak of interleaving. `overlapped` becomes true when a call begins,
or a loop looks for its work, while another call is in progress, and stays true; `before` is
what the one call in progress found when it began. So properties can say what takes an
overlap and what does not. `NoUnbackedPayout` and `CompletedMeansPaid` hold whatever
overlaps. `PaidAgainByOverlap` and `OverriddenByOverlap` say that a second payment, and a
late deposit in place of an administrator's final status, take two calls that overlap: they
happen then, and never otherwise. `ImplementsEngine` is a refinement up to that point:
calls of several steps, with the state as seen from outside changing when a call ends
(`View`), are SwapEngine's single steps. What is shown of SwapEngine thus holds of
executions whose calls on a swap do not overlap, and of no others.

**WalletAudit** is the money that moves beside the swaps: deposits that match no
swap and are settled or refunded by an administrator, and withdrawals.

| In the model | In the code |
|---|---|
| `sends`, `TxId` | the wallets' payments in order; a txid is a place in it |
| `withdrawal[s]` | the key `withdrawal_txid` of a row, which only a settlement of a stray deposit writes |
| `acks`, `ackedSends` | `acknowledged_transactions`, of deposits (with who wrote the record) and of outgoing transactions; always empty unless `HasTable` |
| `own` | the payments to an address in `admin_wallets`, until it is rotated |
| `recent` | `wallet_actions`, of which the report reads the newest `ActionLimit` |
| `call[a]` | where an administrator's request is: `check`, `pay`, `update`, `record`, or a withdrawal that is paid and not logged |
| `lost` | history only: payments whose record was cut off by a fault |
| `Check`, `Pay`, `UpdateSwap`, `Record` | the steps of `settle_orphaned_transaction` and `refund_orphaned_transaction`; a refund updates no swap |
| `PayFails`, `RecordFails`, `Crash` | the wallet's refusal, a lost answer, a failed write that is only logged, the end of the worker |
| `AcknowledgeDeposit`, `AcknowledgeSend` | the endpoint `audit/acknowledge`: any transaction, with any action the request names (`api.py:814`), nothing asked of records or wallet |
| `Rotate`, `Withdraw`, `LogWithdrawal` | the endpoints `wallets/rotate` and `wallets/withdraw` |
| `Payout` | `_settle_swap`, as the wallet sees it |
| `Unaccounted` | the report's test of an outgoing transaction: not acknowledged, to no administrator's address (`engine:686-713`), no row's `withdrawal_txid`, no recent action |

An administrator may enter a record by hand that says *settled* or *refunded* of a deposit
nobody paid out: nothing checks the action. `RecordedWasPaid` is therefore of the records
that requests write. `OnlyRecordsClear` reads the report backwards: a payment it does not
complain of, and which was neither acknowledged nor made to an administrator's own address,
is a withdrawal, or a settlement that the swap's record or an acknowledgement names.

`HasTable` is FALSE for the database the migrations make. The runs and theorems
with it TRUE say what the code would promise if the table were there.

**PriceOracle** follows the age of a price. Of a price it keeps when it was
computed (`stamp`, the code's timestamp and `fetched_at`) and when the exchange
was asked for the data under it (`made`). `get_price` is cut where it waits: for
the table (`ReadRow`, `ReadMemory`), in the rate limiter (`Wait`, `Ask`), for the
exchange (`Answer`, `Fail`), for the write (`Store`); what is done with the price
is `Accept` or `Refuse` (`get_conversion_amount`) or `Sample`
(`fetch_and_record`). `Tick` lets time pass only while no thread is `Due`:
`Latency` bounds a request, `Stall` an access to the table, and a thread that
waits for nothing does not linger. These two bounds are assumptions. `Restart`
empties a process's memory and leaves the table. Each of the
code's clocks is read where the code reads it: the age of a remembered price is
taken from the start of the call, and it is remembered under the time its call
began.

**ServiceStart** follows every run of the two start scripts statement by statement:
the container's entrypoint goes on to the server, an operator's (`first-run.sh`,
`docker exec`) ends. `Init` is a new database or any that an earlier version left.

| In the model | In the code |
|---|---|
| `schema`, `recorded` | the migrations the database shows the effect of; `schema_migrations` |
| `settings`, `writer` | `app_settings` as committed; the script that has an open transaction on it |
| `run[r]` | where a run is; `seen` is the list of applied migrations it read, `fresh` the keys it has inserted and not committed |
| `Begin`, `Skip`, `Change`, `Record`, `SchemaDone` | `run_migrations`: the read, and the loop with its change and its record as separate commits |
| `ChangeFails`, `RecordFails` | a column that exists, a migration id that exists: the exception ends the run |
| `Keep`, `Miss`, `Insert`, `InsertFails`, `Commit` | `migrate_settings`: look, insert what is missing, one commit at the end |
| `Set`, `Put` | one field of the settings endpoint and its setter |
| `Stop` | the end of a process at any point |

`Alters` are the migrations that fail when their effect is there already (ALTER
TABLE ADD COLUMN); the others say IF NOT EXISTS. A run can only lose a lock to an
open transaction of the settings script, and waits five seconds for it:
`InsertFails` covers that too.

**Backups** follows every run of `run_backup`, the service's hourly one and an
operator's, step by step over the one scratch directory they share, and beside them
a restore of the database while the service goes on.

| In the model | In the code |
|---|---|
| `live`, `file`, `exists` | the committed changes: as a reader sees them, in the main file (which lags behind in WAL mode until `Checkpoint`), and whether there is a file |
| `configs` | whether the table `wallet_configs` exists, which no migration makes; any of both from the start |
| `temp`, `dump`, `writer[p]` | the scratch directory, the dump in it, and which run wrote each table's part or wallet |
| `names` | the archives, by the second in their names |
| `pc[r]`, `todo[r]`, `found[r]`, `linked[r]`, `old[r]` | where a run is; tables or wallets to go; `has_files`; whether the dump it has open is the one in the directory; the archives it will remove |
| `Begin`, `SkipDump`, `OpenDump`, `DumpTable`, `DumpDone`, `DumpFails` | `run_backup` and `backup_database`: the dump is read table by table |
| `CopyWallet`, `MissWallet`, `SkipWallet`, `GiveUp`, `OpenArchive`, `FillArchive`, `RmTree` | the wallets (skipped without a path), the archive, the removal of the directory under whoever uses it |
| `ListArchives`, `RemoveOld`, `RemoveFails`, `Finish` | `cleanup_old_backups`: one listing, then one removal after the other |
| `Extract`, `CopyFile`, `RemoveFile`, `RunScript`, `RestoreStops` | `restore_database`: the copy named `pre_restore`, the removal, the script |
| `Commit`, `Connect`, `Checkpoint`, `Tick` | the service's connections and the clock |
| `kept` | what each `pre_restore` copy holds |
| `alone[r]`, `settled` | history only: nothing has disturbed the run since it began; what checkpoints wrote, other than between a restore's copy and its removal |

## 4. The runs

All constants are bounded as follows: swaps and net amounts by the sets given,
payouts by `MaxSends` (a guard on paying; 2 is the least that tells a double
payment from a single one), seconds by `MaxTime`, calls in progress at once by `MaxBusy`,
entries by hand and payments to administrators that stand at once by `MaxAside`. Nothing
else is unbounded.
`progress_one_process` checks liveness, the others safety; deadlock is checked in
every run.

| Run | Instance | Properties |
|---|---|---|
| `engine_one_process` | 2 swaps, 1 amount, confirmations required or not, API and threads in one process, no faults, administrator may set *cancelled*; 1.8 M states | `TypeOK`, `PaidAtMostOnce`, `PaidIsRecorded`, `CacheCoherent`, `ActiveRowIsServed`, `DepositHasAWayOn`, `ImplementsLedger` |
| `engine_deployed` | 1 swap and a foreign transaction, worker and master, both sweepers, all three faults, four administrator's statuses; 3.3 M states | `StatusColumnAgrees`, `NoUnbackedPayout`, `CompletedMeansPaid` |
| `threads` | 1 API thread, settlement and cleanup thread, 2 calls at once, a foreign transaction; 6.1 M states | `TypeOK`, `NoUnbackedPayout`, `CompletedMeansPaid`, `PaidAgainByOverlap`, `OverriddenByOverlap`, `ImplementsEngine` |
| `engine_shared_nothing` | gunicorn, no fault, no administrator | violates `PaidAtMostOnce` |
| `progress_one_process` | 2 swaps, 2 amounts, one process, no administrator, no faults, starts and stops; 107 k states | `SwapsComeToAnEnd`, `HoldIsReleased` |
| `audit_records` | 2 administrators, 2 stray deposits, 1 swap, 3 payments, 1 entry by hand or payment to an administrator at a time, the table in place, every fault; 2.6 M states | `TypeOK`, `RecordedWasPaid`, `WithdrawalIsRecorded`, `PaidOncePerRequest`, `OnlyRecordsClear` |
| `audit_repeat` | 1 administrator, no fault, no table | violates `HandledOnce` |
| `oracle_ages` | 2 threads of one process, 1 pair, 6 units of time, restarts; 2.7 M states | `TypeOK`, `QuotesRestOnRecentData`, `SamplesRestOnRecentData`, `RequestsAreSpaced` |
| `start_overlap` | a container and 2 operators, 3 migrations of which 2 are ALTERs, 2 settings, 2 values; 66 k states | `TypeOK`, `RecordFollowsSchema`, `UpIsReady`, `SettingsAreKept` |
| `start_crash` | a container alone | violates `AloneNeverFails` |
| `backups_overlap` | 2 runs, 2 tables, 1 change, 1 wallet with and without `wallet_configs`, 1 archive kept, 3 seconds, a restore and the service; 1.8 M states | `TypeOK`, `CheckpointedSurvives`, `NewestArchivesStay`, `ArchivesAreBounded`, `UndisturbedBackupIsFresh` |
| `restore_copy` | the same with 1 run | violates `CopyIsCurrent` |

What they show. In one process whose calls do not overlap, the engine keeps the
ledger's promise: one payout, which a confirmation let through, recorded in the same
step, also for a swap that nobody paid for because no confirmations are required; after
a restart every active row is served; cache and row disagree only after a failed
settlement; and no confirmed deposit is overlooked: until it is answered, a sweep, the
expiry or a scan that will not refuse it has it in its way, but for the failed copy
described below. In the deployment that `entrypoint.sh` makes, with every fault, what
still holds is weaker: payouts need a confirmation that passed or an administrator, a
completed row was paid, column and JSON agree (except for a flagged swap as created,
whose column says *pending*). What "a confirmation that passed" is worth depends on the
check: that the transaction is the swap's own deposit, nothing in the code ensures.

The two payout properties survive when calls of one process interleave at every access.
That a swap is paid once does not survive it. Two confirmations that both passed the
status check (`engine:454`) while they waited for the wallet both go on to `_settle_swap`,
and each pays; so does a confirmation beside the retry of a sweep. Nor does an
administrator's decision: a scan that has looked at the override (`engine:401`) and asks
the wallet for the amount writes *late_deposit* over a status set meanwhile.
`PaidAgainByOverlap` and `OverriddenByOverlap` say that it takes such an overlap;
`ImplementsEngine` says that before the first overlap every call is one of the engine's
steps. These races need no gunicorn and no fault, and nothing in the code prevents them.

Left to themselves, the background threads take every swap to an end, although one
refused deposit ends a scan, a failed settlement is remembered in memory only and the
expiry takes swaps out of the cache; and a delayed swap does not hold back others for
ever. Whether a deposit that came late is *noticed* is another matter: a scan sees what
`listunspent` lists, payouts from the same wallet may have spent the deposit, outputs
below the swap's amount are passed over (`swap_cleanup.py:171`), and a deposit listed
before may be refused and end the scan. No run promises it. `DepositHasAWayOn` says only
that the swap's state does not stand in the way, with one exception that it names
(`Stuck`): a settlement that fails after its swap was cancelled or has expired puts the
failed copy back into the cache, and every scan that meets it is refused and ends, until
the service is started again.

What a request records of a stray deposit is true under every fault and beside any
entries by hand (which may say anything), and with the table in place a deposit is paid
at most once for each request that runs at the same time, apart from payments whose record a fault cut off: the check alone does not
make it once. A price that is quoted rests on data requested within the
validation's limit *plus* one ticker lifetime and one request, and a sampled one,
which nothing validates, within two lifetimes, a request and a stall: the caches
add up, but none renews another. The rate limiter spaces the requests of a
thread, not of a process: n threads that wake together ask n times.

However starts overlap, fail and crash, the record of migrations is a prefix of
their order and the schema at most one migration ahead of it, a server only runs on
a complete database, and no value of a setting is replaced by a default: the scripts
fail rather than do damage. What they do not do is recover (`start_crash`).

However backup runs overlap, fail and end early, an archive is removed only while
enough newer ones stay, and a run that nothing disturbed archives a complete dump
and, where the database knows their paths, every wallet, as read in that very run,
whatever an earlier run left in the scratch directory. On the database the migrations make
the paths are not known and the archive has the dump alone (section 5). Runs that overlap
promise less: one archives what another has half written, or removes the directory under
it. No sequence of restores loses from both the database and the copies what a checkpoint
had written into the main file, except between a restore's copy and its removal; what was
committed and not yet checkpointed may be lost, which `restore_copy` shows.

Why the bounds are enough. Swaps interact only through the liquidity hold and
through one refused deposit ending a scan, or one failed price ending a sweep;
two swaps show both. Two amounts let the hold bind and let a late deposit be
priced differently; they are in `progress_one_process`, which is about the hold. The
properties of `engine_one_process` do not speak of amounts. The deployed run takes one
swap because its properties speak of one swap at a time and the faults multiply the
states; `Required = {1}` there and in `threads`, since with 0 in it every settlement is
cleared and `NoUnbackedPayout` would be no test. One foreign transaction is as good as many.
SwapThreads has one swap because calls on different swaps share only the dict itself, and
two calls at once since whatever goes wrong is written by one call over another; with the
API thread and both background threads every kind of call meets every other, a cancelled
or overridden swap and a delayed one included. The proofs are for any number of threads
and any `MaxBusy`.
In WalletAudit two administrators are the least that overlap, two deposits the
least of which one is handled rightly, and three payments allow a repeat beside
another deposit's. An entry by hand or a payment to an administrator only takes
transactions out of what the report complains of, so one at a time is enough to meet each
request. In PriceOracle a horizon of 6 is twice a ticker's lifetime of
2, a request of 1 and a stall of 1, the age at which a sample would break its
bound; `MaxAge` is 1, since with the code's proportions (lifetime 30 s, limit
60 s, waits within the 30 s of the busy timeout) the validation refuses nothing
and the bound on quotes would be no test of it. One process is enough: another
one differs only in reaching this one's prices through the table, as a restart
of the process does too; the proofs are for any number.
In ServiceStart three runs let two collide while a third has the server up, and
three migrations have a repeatable one before two that are not.
In SwapProgress two swaps are the least of which one stands in the other's way, in a sweep, a scan
or by the liquidity hold; the API and the threads share the one process. In Backups two
runs are the least that overlap, two tables let a dump be cut off between them, one
change is committed and checkpointed or not, and three seconds make two archives beyond the one that
is kept. Symmetry is used for swap ids where all pay the same coin and no liveness is
checked, for administrators, operators, tables and backup runs.

Each property also has a mutant: a definition of the model altered the way a
bug would alter the code (a status missing from the set a start loads, a delay
that is not saved, a confirmation that does not count, a completion that only
stamps the time), under which TLC finds the property violated. The altered
definitions stand next to the right ones and are marked.

**Fairness.** Only SwapProgress assumes any. The settlement loop runs as long as its
process does and catches what a turn raises (`engine:1293`), so a step it can always take
is taken: weak fairness for one turn after the other of a sweep that has begun, strong
fairness for beginning one, since a sweep under way, or a restart, disables that again and
again. The cleanup loop (`swap_cleanup.py:41`) expires what has grown old on every turn,
before it scans: weak fairness of `ExpireSwaps(Swaps)`, in which every swap has grown old.
Nothing at all is assumed of the deposit scan, which may list nothing for ever.
`Restarted` is weak: a service that is down stays startable until it is started.
`WalletsAreFilled` is the one assumption about money, strong because a retry is
possible only while a sweep has the swap: whoever runs the service buys coins in the
end. `Rest` says that users stop calling and processes stop dying: without it a user
who cancels and confirms in turns, or a service that stops in every sweep, could put
off anything. Nothing is assumed of how a retry or a confirmation ends as long as the
wallet is short, or of users coming back. Under gunicorn `HoldIsReleased` does not hold,
and no run says it does: the master settles a swap of which the worker has a delayed
copy, the worker's cache never learns of it, and the hold stays until the worker is
started again.

## 5. Disagreements between the code and its documents

* `engine_shared_nothing`: `docs/SECURITY.md:96` calls races in settlement
  mitigated by database locks and atomic transactions. Under gunicorn the
  master's threads and the worker's API both pay a swap, each from its cache.
* `audit_repeat`: `admin_service.py:348` says "Check if a transaction ID is already
  acknowledged/processed." The table it reads does not exist, the error becomes
  "no", and a deposit is settled or refunded as often as it is asked for.
* `start_crash`: `migrate_schema.py:6` says "Can be run safely multiple times
  (idempotent)." After a run that ended between an ALTER TABLE and its record, every
  later one fails with a duplicate column, and with it every start of the container.

* `restore_copy`: `docs/BACKUPS.md:58` says "A backup of the current state is created
  automatically before restoring." `shutil.copy2` (`restore.py:91`) copies the main file
  only; the service's connections are in WAL mode (`db_pool.py:39`) and stay open, so what
  they have committed since the last checkpoint is not in the copy.

Other disagreements and oddities met on the way, which no run has to itself:

* `CHANGELOG.md:56` lists as a known issue that "late deposit detection may still trigger
  on admin-overridden swaps", while `engine:402` and `CHANGELOG.md:15` say that an
  administrator's state is supreme. The first is right: without `overlapped` in
  `OverriddenByOverlap` TLC finds an administrator who sets *cancelled* while a scan waits
  for the wallet, and the scan writes *late_deposit* over it.
* `docs/SECURITY.md:96` is wrong for a single process too. Without `overlapped` in
  `PaidAgainByOverlap` TLC finds two overlapping confirmations that both pay.
* With `swap_confirmations_required` set to 0, which the endpoint accepts, `engine:497`
  asks for nothing and any text as `deposit_txid` pays a swap out; with 1 or more, any
  transaction the wallet knows does, one of another swap included.
* `docs/BACKUPS.md:10-13` lists both wallets among the contents of a backup.
  `wallet_configs`, where `get_wallet_path` (`admin_service.py:201`) looks for their paths,
  is created by no migration. On the migrations' database the query fails, the error is
  logged, the path is None and every run skips every wallet (`backup.py:72`).
* `api.py:814` takes the action of an acknowledgement from the request: a deposit nobody
  paid out may be recorded as settled or refunded.

* `engine:1102` says an administrator's state "will not be overwritten by background
  jobs". Confirmation looks at the override, `_settle_swap` does not, so a sweep
  settles a swap that an administrator has closed since the sweep's snapshot, or whose
  delayed copy the other process still has.
* `engine:801` reports "Manual withdrawal not recorded in system" for the service's own
  payouts: it looks for them under `withdrawal_txid`, which `_settle_swap` does not
  write. That is why `OnlyRecordsClear` speaks of what the report clears and not of
  what it complains of.
* `docs/BACKUPS.md:9` says that the last 24 backups are kept; `backup.py:113` keeps 720.
* A dump that was cut off has no COMMIT; restoring it reports success and leaves an
  empty database. A wallet is restored to `datadir/wallets`, where by default neither
  the daemon nor the next backup looks.

## 6. The proofs

The theorems hold for all values of the constants: any set of swaps, processes,
threads, administrators or runs, any amounts, any lifetimes and delays and any bound on
payouts or time. Their assumptions on constants are the named ASSUMEs of
`SwapStore`, `SwapEngine`, `SwapThreads`, `WalletAudit`, `PriceOracle`, `ServiceStart`
and `Backups`, which say that the parameters have the right kind (a lifetime is not
zero, the API's threads are finitely many, a swap followed by its threads has one
amount, a transaction that is nobody's deposit is no swap's).

| Theorem | Says | Extra assumption |
|---|---|---|
| `TypeCorrect` | `Spec => []TypeOK` | none |
| `ColumnAgrees` | `Spec => []StatusColumnAgrees` | none |
| `CompletedIsPaid` | `Spec => []CompletedMeansPaid` | none |
| `PayoutsAreBacked` | `Spec => []NoUnbackedPayout` | none |
| `OneProcessPaysOnce` | `Spec => []PaidAtMostOnce` | `OneProcess` |
| `OneProcessRecordsPayment` | `Spec => []PaidIsRecorded` | `OneProcess` |
| `OneProcessIsCoherent` | `Spec => []CacheCoherent` | `OneProcess` |
| `OneProcessServesActive` | `Spec => []ActiveRowIsServed` | `OneProcess` |
| `OneProcessOverlooksNothing` | `Spec => []DepositHasAWayOn` | `OneProcess` |
| `OneProcessImplementsLedger` | `Spec => ImplementsLedger` | `OneProcess` |
| SwapThreads: `TypeCorrect` | `Spec => []TypeOK` | none |
| `PayoutsAreBacked` | `Spec => []NoUnbackedPayout` | none |
| `CompletedIsPaid` | `Spec => []CompletedMeansPaid` | none |
| `PaysAgainByOverlap` | `Spec => []PaidAgainByOverlap` | none |
| `CallsAreEngineSteps` | `Spec => ImplementsEngine` | none |
| WalletAudit: `TypeCorrect` | `Spec => []TypeOK` | none |
| `RecordsArePaid` | `Spec => []RecordedWasPaid` | none |
| `WithdrawalsAreRecorded` | `Spec => []WithdrawalIsRecorded` | none |
| `PaysOncePerRequest` | `Spec => []PaidOncePerRequest` | finitely many administrators |
| `ReportClearsRecordsOnly` | `Spec => []OnlyRecordsClear` | none |
| PriceOracle: `TypeCorrect` | `Spec => []TypeOK` | none |
| `QuotesAreRecent` | `Spec => QuotesRestOnRecentData` | none |
| `SamplesAreRecent` | `Spec => SamplesRestOnRecentData` | none |
| `RequestsKeepTheGap` | `Spec => RequestsAreSpaced` | none |
| ServiceStart: `TypeCorrect` | `Spec => []TypeOK` | none |
| `RecordIsFaithful` | `Spec => []RecordFollowsSchema` | none |
| `ServerFindsAll` | `Spec => []UpIsReady` | none |
| `NoValueIsReplaced` | `Spec => SettingsAreKept` | none |
| Backups: `TypeCorrect` | `Spec => []TypeOK` | none |
| `RestoreKeepsCheckpointed` | `Spec => []CheckpointedSurvives` | none |
| `BackupIsFresh` | `Spec => UndisturbedBackupIsFresh` | none |
| `NewestStay` | `Spec => NewestArchivesStay` | none |
| `ArchivesStayBounded` | `Spec => ArchivesAreBounded` | none |

`OneProcess` is `API = BG /\ Faults = {} /\ Sweepers = {"loop"}`: the conditions
under which the theorems that name it hold. The violation runs show that the first is
needed; the engine's sweeps would pay twice if the queue endpoint ran one beside
the settlement thread's, and each fault breaks the tie between a payout and its
record. In SwapThreads nothing of the kind is assumed.

How the arguments go.

* *Types* (`SwapEngineProofs`). The code has few ways of changing a swap and many
  callers of them. Lemmas state once what a settlement, a confirmation and a
  write may do (`SettleOutcome`, `ConfirmOutcome` and their likes); each action
  is then one of these, and the later modules reuse them.
* *Payouts* (`SwapEngineProofs`). `NoUnbackedPayout` is not inductive: a swap
  that no confirmation let through must also never come to be *delayed*, or a sweep would
  pay it. `PayoutInv` adds `UnbackedIsIdle`: while a swap is neither cleared nor
  touched, no cache and no row has it delayed, no sweep has it in its snapshot
  and no row reads *completed*. The invariant is a conjunction over swaps, so
  each action is proved for the swap it works on and the others are framed.
* *One process* (`OneProcessProofs`). `OneProcessInv` relates the three copies of
  a swap's status, the payout count and the sweep's snapshot: the cache follows
  the row, a paid swap's row reads *completed* and is out of the cache and of the
  sweep, an active row is cached, and a swept swap is confirmed.
* *Marks* (`OneProcessProofs`). The scan looks for an override on the cached copy if
  there is one. `MarkInv`: a cached copy is of a row, and has the row's mark, where a
  missing mark and a cleared one read alike. The argument about deposits needs it.
* *Deposits* (`OneProcessProofs`). `DepositHasAWayOn` names what each background
  thread would do next, so it is the part of the liveness of SwapProgress that needs no
  fairness: there is no dead end. `OpenInv` is what makes it so: while a swap is unpaid
  its row stays in one of six states that some thread takes up or an administrator was
  told of, although `failed` and `processing` are set in memory; and the copy of a
  flagged swap never fails, because no sweep ever holds it. `UnmarkedInv` says that
  nobody but an administrator marks a row, so that no scan takes a swap for overridden.
* *Threads* (`SwapThreadsProofs`). `Shape` says which object and which row a thread
  relies on at each place of its call, so that no step works on one that is gone.
  However calls overlap, `UnbackedIsQuiet` and `UnpaidIsOpen` do for every object, every row
  and every row about to be written what `UnbackedIsIdle` does for SwapEngine: a lost
  update can bring back an old status, but only one that a swap in that case may have.
* *Overlap* (`SwapThreadsProofs`). Until calls overlap `Exclusive` says that one call is
  under way, and `OneAtATime` what it may rely on: between calls the engine is `Orderly` (a
  paid swap's row is completed, its cached copy gone and no sweep has it), and `AtPlace`
  says for every place of a call how far from that it has come. Once they have overlapped
  nothing is claimed, which makes `PaidAgainByOverlap` inductive together with these.
* *Refinement* (`ThreadsEngineProofs`). `View` shows a call's effect when the call ends.
  So each of its steps but the last must stutter, and the last must be the one step of
  SwapEngine that does all the call did: which one depends on what the call found and on
  what the wallet answered, and by the last step both are gone. `OnTrack` keeps them in
  mind. For every place of a call (`InPlace`) it relates the object, the row and the
  payouts to the view the caller had when it began (`before`): who called (`Confirms`,
  `Settles`), what it found (`Found`), whether it may go on to a settlement (`ToSettle`),
  and what it is about to write (`Plan`). At the end of the call the plan that is carried
  out names the step. `Exclusive` sees to it that nothing but the call itself moves in
  between, deposits excepted, which are a step of both.
* *Ledger* (`OneProcessProofs`). Every step of the engine is, for the swap it works
  on, one of the ledger's three steps or a stutter (`Booked`); `OneProcessInv`
  gives the guards.
* *Records* (`WalletAuditProofs`). A record is written from the txid a request
  carries, so the invariant (`CallsMatch`) says that a request past its payment
  carries a payment made for its deposit, in its way. Entries by hand are told from
  theirs by who wrote them. `PaidOncePerRequest` counts.
  Until a deposit is recorded, each payment of it that is not lost belongs to a
  request that has yet to record it (`Traced`); so payments made and payments to
  come, by requests past the check, are together no more than there are
  administrators (`Bounded`). Once it is recorded no request passes the check, and
  a payment only turns one still to come into one made.
  What the report clears rests on `LogInv`: an entry of the log, or one about to be
  written, is of a withdrawal, unless it is of a transaction acknowledged by hand.
* *Ages* (`PriceOracleProofs`). `Rests` says of a price how much older than its
  timestamp its data is, `CallsInTime` how long a thread has been where it is and
  how old the price it holds has become; the age of a quote or a sample is the sum.
  `Spaced` says that a thread's last request is no later than its process's and
  that it sleeps until a gap after its own.
* *Starts* (`ServiceStartProofs`). `InOrder`: a run finds, or has made, a record of
  every migration it is past, so that the next one it may record is the first that is
  missing. `Inserting`: the keys a run has inserted have no value yet and it alone has
  a transaction, so its commit replaces nothing, and the keys it is past have a value
  or are about to. `WritesAfterSchema` justifies that a transaction of the settings
  script meets no change of the schema.

* *Backups* (`BackupsProofs`). `OldIsOld`: what a run is about to remove has enough
  newer archives, and keeps having them, since a removal by another run's listing takes
  none of the newest either. `ListIsCurrent`: a run that nothing disturbed is about to
  remove all that is old. `FreshInv`: such a run is the only one, and what it is past
  in the scratch directory is its own. `SurvivalInv` adds to `CheckpointedSurvives` that a
  checkpointed change is in the main file itself, not only in the log, or in a copy, and
  that before the file is removed it is in a copy.

Only model-checked: the liveness of SwapProgress (neither fairness nor ENABLED is within
the prover's reach; the part of it that is an invariant is proved, see *Deposits*), and of
course the violations. Every invariant and every action property that a passing run
checks, and each of the two refinements, is a theorem.

## 7. What is left out

* `TESTING_MODE`, where wallets and confirmations are mocked.
* The loop at `engine:1265-1282` that looks for expired swaps in the cache by
  `expires_at`: `create_swap` stores no such key, so its body never runs.
* Read-only listings, statistics, the audit log's contents, the rescan endpoint
  (which changes no swap).
* In WalletAudit: amounts, and the report's classes of incoming transactions.
* In PriceOracle: rates, amounts and fees, and so whether the price a request was
  validated on is the one it is quoted at; the fallback values; requests for
  tradebook pages by a backfill, which only push the others back; a forked worker's
  start with a copy of the master's caches, which are as old there as here.
* Which address and amount a transaction pays: the engine's check does not look, so
  `NoUnbackedPayout` says that a transaction was confirmed and not that it was the swap's.
* A change of `confirmations_required` while the engine runs: it keeps the value it read
  at its start. (With `Required = {0, 1}` every call may meet either.)
* Timestamps and addresses; ages and amounts received are nondeterministic.
* In SwapThreads: restarts, lost answers, release, clearing an override and
  orphan settlement; creation is one step; the cleanup's UPDATE, cache drop and
  commit are one step. Threads switch at accesses to wallet, table and cache,
  where the code waits or may be preempted.
* In SwapProgress: the administrator, gunicorn's two processes, faults. Coins come in
  the end for every swap, not for each in proportion. That a late deposit is noticed.
* In Backups: what an archive holds (any dump may be restored, whole, cut off or
  written by two runs at once), the restore of wallet files, connections that stay open on a
  database file that was removed and commit into it, which readers of the new one never
  see, dumps torn between tables, two restores
  in one second, a clock set back.
* In ServiceStart: `ensure_wallet_actions_columns`, which adds three columns to the
  `wallet_actions` of databases older than migration 004's table; a failure of it is only
  logged (`migrate_schema.py:278`), so `UpIsReady` says nothing of those columns. The
  validation of settings; the copy of the settings that the engine takes at its start and
  keeps, whatever the endpoint changes later.
* The components marked `not_modelled` in `PROJECT.json`, each with its reason.

## 8. Plan

Done: the swap life cycle (SwapStatus, SwapStore, SwapEngine), its abstract
promise (SwapLedger), its liveness (SwapProgress), its threads (SwapThreads), stray
deposits and the report (WalletAudit), the price caches (PriceOracle), the start over
crashes (ServiceStart), backups and restores (Backups), and the proofs of section 6.

Next, in this order:

1. Sessions and CSRF tokens of the API as far as they carry state; the settings
   endpoint beside the copy of fees and limits the engine keeps.
2. **PriceHistory** sampling and backfill; **DbPool** commit and rollback, if they turn
   out to carry a property worth stating.

The runs are kept to one for each question: where a new module asks a sharper form
of an old run's question, it takes that run's place.

Proofs to come: for each new module its type invariant and its main safety property.
Liveness stays with TLC, as do recursive definitions.

## 9. Running it

    tlc -workers 2 -config EngineOneProcess.cfg MCSwapEngine
    tlapm OneProcessProofs.tla

`PROJECT.json` names the module and configuration of every run, the mutant of
every property, and the source lines every definition stands for. The longest
runs take two to three minutes; proving everything from nothing takes a few.
