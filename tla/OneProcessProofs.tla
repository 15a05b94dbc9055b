--------------------------- MODULE OneProcessProofs ---------------------------
(***************************************************************************)
(* The engine in one process, as main.py runs it, with no faults and the   *)
(* settlement thread as its only sweep: for any number of swaps, amounts   *)
(* and administrator's choices, a swap the administrator leaves alone is   *)
(* paid at most once and recorded as paid, and the cache and the table     *)
(* stay in step.  The engine implements the ledger of SwapLedger, and no   *)
(* confirmed deposit is overlooked.                                        *)
(*                                                                         *)
(* What makes it so is that each of the two ways to a payout closes the    *)
(* other: a confirmation pays only a swap that is cached as unconfirmed,   *)
(* a sweep only holds swaps that are not, and a payout takes the swap out  *)
(* of the cache and out of the sweep.                                      *)
(***************************************************************************)
EXTENDS SwapEngineProofs

OneProcess == API = BG /\ Faults = {} /\ Sweepers = {"loop"}

HasRow(s) == db[s] # None

CacheFollowsRow(s) ==
    Cached(API, s) =>
        /\ HasRow(s)
        /\ \/ cache[API][s].status = db[s].data.status
           \/ cache[API][s].status = "failed"

\* What a sweep still holds cannot be confirmed any more.
SweptIsConfirmed(s) ==
    s \in sweep["loop"] =>
        /\ HasRow(s)
        /\ Cached(API, s) => cache[API][s].status \notin Unconfirmed

PaidIsDone(s) ==
    sends[s] > 0 =>
        /\ sends[s] = 1
        /\ HasRow(s) /\ db[s].col = "completed" /\ db[s].data.status = "completed"
        /\ ~ Cached(API, s)
        /\ s \notin sweep["loop"]

ActiveIsCached(s) ==
    HasRow(s) =>
        /\ db[s].col # "circuit_breaker"
        /\ db[s].col \in LoadedStates => Cached(API, s)

Orderly(s) ==
    s \notin touched =>
        /\ CacheFollowsRow(s)
        /\ SweptIsConfirmed(s)
        /\ PaidIsDone(s)
        /\ ActiveIsCached(s)

OneProcessInv == \A s \in Swaps : Orderly(s)

-----------------------------------------------------------------------------
(* One step, seen from one swap. *)

LEMMA OneProc == OneProcess => API \in Procs /\ \A p \in Procs : p = API
BY DEF OneProcess, Procs

\* With no faults every write reaches the table.
LEMMA WritesSucceed ==
    ASSUME OneProcess, NEW s, NEW r, Stored(s, r)
    PROVE  db'[s] = r
BY DEF OneProcess, Stored

LEMMA OthersStayOrderly ==
    ASSUME OneProcess, NEW s \in Swaps, Frame(API, s),
           NEW t \in Swaps \ {s}, Orderly(t),
           sweep'["loop"] \subseteq sweep["loop"], touched \subseteq touched'
    PROVE  Orderly(t)'
<1>1. db'[t] = db[t] /\ sends'[t] = sends[t] /\ cache'[API][t] = cache[API][t]
  BY OneProc DEF Frame
<1> QED
  BY <1>1 DEF Orderly, CacheFollowsRow, SweptIsConfirmed, PaidIsDone, ActiveIsCached,
     HasRow, Cached

LEMMA StepOnOneOrderly ==
    ASSUME OneProcess, OneProcessInv, NEW s \in Swaps, Frame(API, s),
           s \in touched' \/ Orderly(s)',
           sweep'["loop"] \subseteq sweep["loop"], touched \subseteq touched'
    PROVE  OneProcessInv'
<1>1. Orderly(s)'
  BY DEF Orderly
<1>2. \A t \in Swaps \ {s} : Orderly(t)'
  BY OthersStayOrderly DEF OneProcessInv
<1> QED
  BY <1>1, <1>2 DEF OneProcessInv

\* A settlement of a swap that has a row, was not paid and is in no sweep any
\* more when the settlement is done.
LEMMA SettleIsOrderly ==
    ASSUME OneProcess, PayoutInv, NEW s \in Swaps, NEW o \in Swap,
           HasRow(s), sends[s] = 0, ActiveIsCached(s), s \notin sweep'["loop"],
           o.status \in {"processing", db[s].data.status} \/ o.status = "failed",
           SettleOutcome(API, s, o)
    PROVE  Orderly(s)'
<1>1. db[s] \in Row \cup {None} /\ db[s] # None
  BY DEF PayoutInv, TypeOK, HasRow
<1>2. SweptIsConfirmed(s)'
  BY DEF SweptIsConfirmed
<1>3. CASE /\ sends'[s] = sends[s] + 1
           /\ cache'[API][s] = None
           /\ Stored(s, CompleteSwap(db[s]))
  <2>1. /\ db'[s] # None
        /\ db'[s].col = "completed" /\ db'[s].data.status = "completed"
    BY <1>1, <1>3, RowAfterComplete, WritesSucceed
  <2> QED
    BY <1>2, <1>3, <2>1 DEF Orderly, CacheFollowsRow, PaidIsDone, ActiveIsCached,
       HasRow, Cached, LoadedStates
<1>4. CASE /\ sends'[s] = sends[s]
           /\ cache'[API][s] \in Swap /\ cache'[API][s].status = "delayed"
           /\ Stored(s, UpdateSwap(db[s], cache'[API][s]))
  <2>1. /\ db'[s] # None
        /\ db'[s].col = "delayed" /\ db'[s].data.status = "delayed"
    BY <1>1, <1>4, RowAfterUpdate, WritesSucceed
  <2> QED
    BY <1>2, <1>4, <2>1, NoneIsNoRecord DEF Orderly, CacheFollowsRow, PaidIsDone,
       ActiveIsCached, HasRow, Cached
<1>5. CASE /\ sends'[s] = sends[s]
           /\ cache'[API][s] \in Swap
           /\ cache'[API][s].status \in {"failed", db[s].data.status}
           /\ db'[s] = db[s]
  BY <1>1, <1>2, <1>5, NoneIsNoRecord DEF Orderly, CacheFollowsRow, PaidIsDone,
     ActiveIsCached, HasRow, Cached
<1>6. Faults = {}
  BY DEF OneProcess
<1> QED
  BY <1>3, <1>4, <1>5, <1>6 DEF SettleOutcome

\* An unsettled write that leaves the cache empty, or in step with the row.
LEMMA WriteIsOrderly ==
    ASSUME OneProcess, PayoutInv, NEW s \in Swaps, Orderly(s), s \notin touched,
           NEW u \in Swap, Stored(s, UpdateSwap(db[s], u)),
           sends'[s] = sends[s], sends[s] = 0,
           sweep'["loop"] \subseteq sweep["loop"],
           \/ cache'[API][s] = None /\ u.status \in {"late_deposit", "cancelled"}
           \/ /\ HasRow(s)
              /\ cache'[API][s] = u /\ u.status = "awaiting_deposit"
              /\ Cached(API, s) /\ cache[API][s].status \in Unconfirmed
    PROVE  Orderly(s)'
<1>1. db[s] \in Row \cup {None} /\ u # None
  BY NoneIsNoRecord DEF PayoutInv, TypeOK
<1>2. \/ db[s] = None /\ db'[s] = None
      \/ /\ db[s] # None /\ db'[s] # None
         /\ db'[s].col = u.status /\ db'[s].data.status = u.status
  BY <1>1, RowAfterUpdate, WritesSucceed
<1>3. /\ CacheFollowsRow(s)' /\ ActiveIsCached(s)'
  BY <1>1, <1>2 DEF CacheFollowsRow, ActiveIsCached, HasRow, Cached, LoadedStates
<1>4. SweptIsConfirmed(s)'
  BY <1>1, <1>2 DEF Orderly, SweptIsConfirmed, HasRow, Cached
<1>5. PaidIsDone(s)'
  BY DEF PaidIsDone
<1> QED
  BY <1>3, <1>4, <1>5 DEF Orderly

LEMMA ConfirmIsOrderly ==
    ASSUME OneProcess, PayoutInv, OneProcessInv, NEW s \in Swaps,
           Frame(API, s), ConfirmOutcome(API, s),
           sweep' = sweep, touched' = touched
    PROVE  OneProcessInv'
<1> SUFFICES ASSUME s \notin touched
             PROVE  Orderly(s)'
  BY StepOnOneOrderly
<1>1. Orderly(s) /\ sends[s] \in Nat
  BY MaxSendsIsNat DEF OneProcessInv, PayoutInv, TypeOK
<1>2. CASE sends'[s] = sends[s] /\ cache'[API][s] = cache[API][s] /\ db'[s] = db[s]
  BY <1>1, <1>2 DEF Orderly, CacheFollowsRow, SweptIsConfirmed, PaidIsDone,
     ActiveIsCached, HasRow, Cached
<1>3. CASE /\ Cached(API, s) \/ (db[s] # None /\ db[s].data.status \in LateWhenStored)
           /\ sends'[s] = sends[s]
           /\ cache'[API][s] = None
           /\ \E d \in Swap : d.status = "late_deposit" /\ Stored(s, UpdateSwap(db[s], d))
  <2>1. sends[s] = 0
    BY <1>1, <1>3 DEF Orderly, PaidIsDone, LateWhenStored
  <2> QED
    BY <1>1, <1>3, <2>1, WriteIsOrderly
<1>4. CASE /\ sends'[s] = sends[s]
           /\ Cached(API, s) /\ cache[API][s].status \in Unconfirmed
           /\ cache'[API][s] \in Swap /\ cache'[API][s].status = "awaiting_deposit"
           /\ Stored(s, UpdateSwap(db[s], cache'[API][s]))
  <2>1. sends[s] = 0 /\ HasRow(s)
    BY <1>1, <1>4 DEF Orderly, PaidIsDone, CacheFollowsRow
  <2> QED
    BY <1>1, <1>4, <2>1, WriteIsOrderly
<1>5. CASE /\ Cached(API, s) /\ cache[API][s].status \in Unconfirmed
           /\ \E o \in Swap : o.status = "processing" /\ SettleOutcome(API, s, o)
  <2>1. sends[s] = 0 /\ HasRow(s)
    BY <1>1, <1>5 DEF Orderly, PaidIsDone, CacheFollowsRow
  <2>2. s \notin sweep'["loop"] /\ ActiveIsCached(s)
    BY <1>1, <1>5 DEF Orderly, SweptIsConfirmed
  <2> QED
    BY <1>5, <2>1, <2>2, SettleIsOrderly
<1> QED
  BY <1>2, <1>3, <1>4, <1>5 DEF ConfirmOutcome

-----------------------------------------------------------------------------
(* The actions. *)

LEMMA UserIsOrderly ==
    ASSUME OneProcess, PayoutInv, OneProcessInv, NEW s \in Swaps, UserStep(s)
    PROVE  OneProcessInv'
<1>1. EngineOK /\ API \in Procs /\ Orderly(s) /\ sends[s] \in Nat
  BY TypeSplit, ProcsType, MaxSendsIsNat DEF PayoutInv, OneProcessInv, TypeOK
<1>2. ASSUME NEW n \in Amounts, NEW st \in {"pending", "circuit_breaker"},
             CreateSwap(s, n, st)
      PROVE  OneProcessInv'
  <2> DEFINE o == [status |-> st, admin |-> "absent", net |-> n]
  <2>1. /\ Frame(API, s) /\ sends'[s] = sends[s]
        /\ cache'[API][s] = o /\ Stored(s, AddSwap(o))
    BY <1>1, <1>2, CreateContract
  <2>2. /\ sweep' = sweep /\ touched' = touched
        /\ sends[s] = 0 /\ db[s] = None /\ s \notin touched
    BY <1>2 DEF CreateSwap, loopVars, envVars
  <2>3. o \in Swap /\ AddSwap(o) \in Row
    BY DEF Swap, SwapStatuses, AdminMarks, AddSwap, Row
  <2>4. o # None /\ AddSwap(o) # None /\ db'[s] = AddSwap(o)
    BY <2>1, <2>3, NoneIsNoRecord, WritesSucceed
  <2>5. AddSwap(o).col = "pending" /\ AddSwap(o).data.status = o.status
    BY DEF AddSwap
  <2>6. s \notin sweep'["loop"]
    BY <1>1, <2>2 DEF Orderly, SweptIsConfirmed, HasRow
  <2> HIDE DEF o
  <2>7. Orderly(s)'
    BY <2>1, <2>2, <2>4, <2>5, <2>6 DEF Orderly, CacheFollowsRow, SweptIsConfirmed,
       PaidIsDone, ActiveIsCached, HasRow, Cached
  <2> QED
    BY <2>1, <2>2, <2>7, StepOnOneOrderly
<1>3. CASE Deposit(s)
  BY <1>3 DEF Deposit, OneProcessInv, Orderly, CacheFollowsRow, SweptIsConfirmed,
     PaidIsDone, ActiveIsCached, HasRow, Cached, engineVars, loopVars
<1>4. ASSUME NEW t \in Transactions, UserConfirm(s, t)
      PROVE  OneProcessInv'
  <2>1. Frame(API, s) /\ ConfirmOutcome(API, s)
    BY <1>1, <1>4, ConfirmContract DEF UserConfirm
  <2>2. sweep' = sweep /\ touched' = touched
    BY <1>4 DEF UserConfirm, loopVars
  <2> QED
    BY <2>1, <2>2, ConfirmIsOrderly
<1>5. CASE CancelSwap(s)
  <2>1. /\ Frame(API, s)
        /\ Cached(API, s) \/ (db[s] # None /\ db[s].data.status # "completed")
        /\ sends'[s] = sends[s] /\ cache'[API][s] = None
        /\ \E u \in Swap : u.status = "cancelled" /\ Stored(s, UpdateSwap(db[s], u))
    BY <1>1, <1>5, CancelContract
  <2>2. sweep' = sweep /\ touched' = touched
    BY <1>5 DEF CancelSwap, loopVars, envVars
  <2>3. ASSUME s \notin touched
        PROVE  Orderly(s)'
    <3>1. sends[s] = 0
      BY <1>1, <2>1, <2>3 DEF Orderly, PaidIsDone
    <3> QED
      BY <1>1, <2>1, <2>2, <2>3, <3>1, WriteIsOrderly
  <2> QED
    BY <2>1, <2>2, <2>3, StepOnOneOrderly
<1> QED
  BY <1>2, <1>3, <1>4, <1>5 DEF UserStep

LEMMA AdminIsOrderly ==
    ASSUME OneProcess, PayoutInv, OneProcessInv, NEW s \in Swaps, AdminStep(s)
    PROVE  OneProcessInv'
<1>1. EngineOK
  BY TypeSplit DEF PayoutInv
<1>2. touched' = touched \cup {s} /\ sweep' = sweep
  BY DEF AdminStep, SetSwapStatus, ClearAdminOverride, ReleaseCircuitBreaker,
     AdminSettle, SettleOrphaned, Touch, loopVars
<1>3. Frame(API, s)
  BY <1>1, SetStatusContract, ClearContract, ReleaseContract, AdminSettleContract,
     OrphanContract DEF AdminStep
<1> QED
  BY <1>2, <1>3, StepOnOneOrderly

LEMMA SweepIsOrderly ==
    ASSUME OneProcess, PayoutInv, OneProcessInv, NEW w \in Sweepers,
           NEW s \in Swaps, SweepOne(w, s)
    PROVE  OneProcessInv'
<1> DEFINE o == Lookup(API, s)
<1>1. w = "loop" /\ ProcOf(w) = API /\ API \in Procs
  BY ProcsType DEF OneProcess, ProcOf
<1>2. TypeOK /\ EngineOK /\ Orderly(s) /\ sends[s] \in Nat
  BY TypeSplit, MaxSendsIsNat DEF PayoutInv, OneProcessInv, TypeOK
<1>3. /\ Frame(API, s) /\ s \in sweep["loop"] /\ s \notin sweep'["loop"]
      /\ sweep'["loop"] \subseteq sweep["loop"]
      /\ \/ o = None /\ UNCHANGED engineVars
         \/ o \in Swap /\ SettleOutcome(API, s, o)
  BY <1>1, <1>2, SweepContract
<1>4. touched' = touched
  BY DEF SweepOne, envVars
<1>5. ASSUME s \notin touched
      PROVE  Orderly(s)'
  <2>1. sends[s] = 0 /\ HasRow(s) /\ CacheFollowsRow(s) /\ ActiveIsCached(s)
    BY <1>2, <1>3, <1>5 DEF Orderly, SweptIsConfirmed, PaidIsDone
  <2>2. CASE UNCHANGED engineVars
    BY <1>2, <1>3, <1>5, <2>1, <2>2 DEF engineVars, Orderly, CacheFollowsRow,
       SweptIsConfirmed, PaidIsDone, ActiveIsCached, HasRow, Cached
  <2>3. CASE o \in Swap /\ SettleOutcome(API, s, o)
    <3>1. o.status \in {db[s].data.status, "failed"}
      <4>1. CASE Cached(API, s)
        BY <2>1, <4>1 DEF CacheFollowsRow, Lookup
      <4>2. CASE ~ Cached(API, s)
        BY <1>1, <1>2, <2>3, <4>2, LookupOfRow, NoneIsNoRecord
      <4> QED
        BY <4>1, <4>2
    <3> QED
      BY <1>3, <2>1, <2>3, <3>1, SettleIsOrderly
  <2> QED
    BY <1>3, <2>2, <2>3
<1> QED
  BY <1>3, <1>4, <1>5, StepOnOneOrderly

\* A sweep takes up what is delayed in the cache or in the table: by
\* CacheFollowsRow no such swap is cached as unconfirmed.
LEMMA StartSweepIsOrderly ==
    ASSUME OneProcess, PayoutInv, OneProcessInv, NEW w \in Sweepers, StartSweep(w)
    PROVE  OneProcessInv'
<1>1. w = "loop" /\ ProcOf(w) = API
  BY DEF OneProcess, ProcOf
<1>2. /\ db' = db /\ cache' = cache /\ sends' = sends /\ touched' = touched
      /\ sweep'["loop"] = Delayed(API)
  BY <1>1 DEF StartSweep, engineVars, envVars, PayoutInv, TypeOK
<1>3. ASSUME NEW t \in Swaps, t \notin touched
      PROVE  Orderly(t)'
  <2>1. Orderly(t) /\ RowAgrees(t)
    BY DEF OneProcessInv, PayoutInv, Safe
  <2>2. CASE t \in Delayed(API)
    <3>1. DelayedInCache(API, t) \/ DelayedInStore(t)
      BY <2>2 DEF Delayed
    <3>2. HasRow(t)
      BY <1>3, <2>1, <3>1 DEF DelayedInCache, DelayedInStore, Orderly,
         CacheFollowsRow, HasRow
    <3>3. Cached(API, t) => cache[API][t].status \notin Unconfirmed
      BY <1>3, <2>1, <3>1 DEF DelayedInCache, DelayedInStore, Orderly, CacheFollowsRow,
         RowAgrees, HasRow, Unconfirmed
    <3>4. sends[t] > 0 => FALSE
      BY <1>3, <2>1, <3>1 DEF DelayedInCache, DelayedInStore, Orderly, PaidIsDone
    <3> QED
      BY <1>2, <2>1, <3>2, <3>3, <3>4 DEF Orderly, CacheFollowsRow, SweptIsConfirmed,
         PaidIsDone, ActiveIsCached, HasRow, Cached
  <2>3. CASE t \notin Delayed(API)
    BY <1>2, <2>1, <2>3 DEF Orderly, CacheFollowsRow, SweptIsConfirmed, PaidIsDone,
       ActiveIsCached, HasRow, Cached
  <2> QED
    BY <2>2, <2>3
<1> QED
  BY <1>2, <1>3 DEF OneProcessInv, Orderly

LEMMA ExpireIsOrderly ==
    ASSUME OneProcess, PayoutInv, OneProcessInv, NEW old \in SUBSET Swaps, ExpireSwaps(old)
    PROVE  OneProcessInv'
<1>1. sweep' = sweep /\ touched' = touched /\ BG = API /\ API \in Procs /\ Faults = {}
  BY ProcsType DEF ExpireSwaps, loopVars, envVars, OneProcess
<1>2. ASSUME NEW t \in Swaps, t \notin touched
      PROVE  Orderly(t)'
  <2>1. Orderly(t)
    BY DEF OneProcessInv
  <2>2. /\ sends'[t] = sends[t]
        /\ \/ db'[t] = db[t] /\ cache'[API][t] = cache[API][t]
           \/ /\ db[t] # None /\ db[t].col \in Expirable
              /\ cache'[API][t] = None
              /\ db'[t] \in Row
              /\ db'[t].col = "timed_out" /\ db'[t].data.status = "timed_out"
    BY <1>1, ExpireContract, TypeSplit DEF PayoutInv
  <2> QED
    BY <1>1, <1>2, <2>1, <2>2, NoneIsNoRecord DEF Orderly, CacheFollowsRow,
       SweptIsConfirmed, PaidIsDone, ActiveIsCached, HasRow, Cached, Expirable, LoadedStates
<1> QED
  BY <1>1, <1>2 DEF OneProcessInv, Orderly

LEMMA BackgroundIsOrderly ==
    ASSUME OneProcess, PayoutInv, OneProcessInv, BackgroundStep
    PROVE  OneProcessInv'
<1>1. ASSUME NEW seen \in SUBSET Swaps, StartScan(seen)
      PROVE  OneProcessInv'
  BY <1>1 DEF StartScan, OneProcessInv, Orderly, CacheFollowsRow, SweptIsConfirmed,
     PaidIsDone, ActiveIsCached, HasRow, Cached, engineVars, envVars
<1>2. ASSUME NEW s \in Swaps, ScanOne(s)
      PROVE  OneProcessInv'
  <2>1. EngineOK /\ BG = API /\ API \in Procs
    BY TypeSplit, ProcsType DEF PayoutInv, OneProcess
  <2>2. Frame(API, s) /\ ConfirmOutcome(API, s)
    BY <1>2, <2>1, ConfirmContract DEF ScanOne, Transactions
  <2>3. sweep' = sweep /\ touched' = touched
    BY <1>2 DEF ScanOne
  <2> QED
    BY <2>2, <2>3, ConfirmIsOrderly
<1> QED
  BY <1>1, <1>2, StartSweepIsOrderly, SweepIsOrderly, ExpireIsOrderly DEF BackgroundStep

\* A restart loads exactly the rows that are still to be worked on.
LEMMA ProcessIsOrderly ==
    ASSUME OneProcess, PayoutInv, OneProcessInv, ProcessStep
    PROVE  OneProcessInv'
<1>1. EngineOK /\ BG = API /\ API \in Procs
  BY TypeSplit, ProcsType DEF PayoutInv, OneProcess
<1>2. ASSUME NEW p \in Procs, Stop(p)
      PROVE  OneProcessInv'
  BY <1>2 DEF Stop, OneProcessInv, Orderly, CacheFollowsRow, SweptIsConfirmed,
     PaidIsDone, ActiveIsCached, HasRow, Cached, loopVars, envVars
<1>3. CASE Start
  <2>1. /\ db' = db /\ sends' = sends /\ touched' = touched
        /\ sweep'["loop"] = {}
        /\ \A t \in Swaps : cache'[API][t] = PendingSwap(db[t])
    BY <1>1, <1>3, StartContract DEF Start, envVars, OneProcess
  <2>2. ASSUME NEW t \in Swaps, t \notin touched
        PROVE  Orderly(t)'
    <3>1. Orderly(t) /\ db[t] \in Row \cup {None}
      BY DEF OneProcessInv, PayoutInv, TypeOK
    <3>2. db[t] # None => db[t].data # None
      BY <3>1, NoneIsNoRecord DEF Row
    <3> QED
      BY <2>1, <2>2, <3>1, <3>2 DEF Orderly, CacheFollowsRow, SweptIsConfirmed,
         PaidIsDone, ActiveIsCached, HasRow, Cached, PendingSwap, LoadedStates
  <2> QED
    BY <2>1, <2>2 DEF OneProcessInv, Orderly
<1>4. CASE Respawn
  BY <1>1, <1>4 DEF Respawn
<1> QED
  BY <1>2, <1>3, <1>4 DEF ProcessStep

-----------------------------------------------------------------------------

LEMMA OneProcessInit ==
    ASSUME OneProcess, Init
    PROVE  OneProcessInv
BY OneProc DEF Init, OneProcessInv, Orderly, CacheFollowsRow, SweptIsConfirmed,
   PaidIsDone, ActiveIsCached, HasRow, Cached, OneProcess

LEMMA OneProcessStep ==
    ASSUME OneProcess, PayoutInv, OneProcessInv, [Next]_vars
    PROVE  OneProcessInv'
<1>1. CASE UNCHANGED vars
  BY <1>1 DEF OneProcessInv, Orderly, CacheFollowsRow, SweptIsConfirmed,
     PaidIsDone, ActiveIsCached, HasRow, Cached, vars, engineVars, loopVars, envVars
<1>2. CASE Next
  BY <1>2, UserIsOrderly, AdminIsOrderly, BackgroundIsOrderly, ProcessIsOrderly DEF Next
<1> QED
  BY <1>1, <1>2

LEMMA OneProcessInvariant ==
    ASSUME OneProcess
    PROVE  Spec => [](PayoutInv /\ OneProcessInv)
<1>1. Init => OneProcessInv
  BY OneProcessInit
<1>2. PayoutInv /\ OneProcessInv /\ [Next]_vars => OneProcessInv'
  BY OneProcessStep
<1> QED
  BY <1>1, <1>2, PayoutInvariant, PTL DEF Spec

\* In one process without faults, a swap no administrator touched is paid at
\* most once, in any order of confirmations, cancellations, scans, sweeps,
\* expiries and restarts.
THEOREM OneProcessPaysOnce ==
    ASSUME OneProcess
    PROVE  Spec => []PaidAtMostOnce
<1>1. PayoutInv /\ OneProcessInv => PaidAtMostOnce
  BY MaxSendsIsNat DEF PayoutInv, TypeOK, OneProcessInv, Orderly, PaidIsDone, PaidAtMostOnce
<1> QED
  BY <1>1, OneProcessInvariant, PTL

\* There, the row of a paid swap says "completed", and the cache has let go of it.
THEOREM OneProcessRecordsPayment ==
    ASSUME OneProcess
    PROVE  Spec => []PaidIsRecorded
<1>1. PayoutInv /\ OneProcessInv => PaidIsRecorded
  BY OneProc DEF PayoutInv, TypeOK, OneProcessInv, Orderly, PaidIsDone, PaidIsRecorded,
     HasRow
<1> QED
  BY <1>1, OneProcessInvariant, PTL

\* There, a cached swap has the status of its row, or has just failed to settle.
THEOREM OneProcessIsCoherent ==
    ASSUME OneProcess
    PROVE  Spec => []CacheCoherent
<1>1. PayoutInv /\ OneProcessInv => CacheCoherent
  BY OneProc DEF OneProcessInv, Orderly, CacheFollowsRow, CacheCoherent, HasRow
<1> QED
  BY <1>1, OneProcessInvariant, PTL

\* There, every active row is in the cache, where confirm_deposit looks for it.
THEOREM OneProcessServesActive ==
    ASSUME OneProcess
    PROVE  Spec => []ActiveRowIsServed
<1>1. PayoutInv /\ OneProcessInv => ActiveRowIsServed
  BY DEF OneProcessInv, Orderly, ActiveIsCached, ActiveRowIsServed, HasRow,
     ActiveStates, LoadedStates
<1> QED
  BY <1>1, OneProcessInvariant, PTL

-----------------------------------------------------------------------------
(* An administrator's mark is the same in the cache and in the row.  A      *)
(* missing mark and a cleared one read alike.                               *)

Mark(a) == IF a = "absent" THEN "null" ELSE a

Marked(s) ==
    Cached(API, s) => HasRow(s) /\ Mark(cache[API][s].admin) = AdminColumn(db[s])

MarkInv == \A s \in Swaps : Marked(s)

\* The marks of a row that is written.
LEMMA MarkAfterUpdate ==
    ASSUME NEW r \in Row, NEW u \in Swap,
           u.admin = "absent" => AdminColumn(r) = "null"
    PROVE  /\ UpdateSwap(r, u) # None
           /\ AdminColumn(UpdateSwap(r, u)) = Mark(u.admin)
<1>1. r # None /\ r.data \in Swap
  BY NoneIsNoRecord DEF Row
<1>2. GetSwap(r).admin = AdminColumn(r)
  BY <1>1 DEF GetSwap, Swap
<1>3. Merge(GetSwap(r), u).admin = IF u.admin = "absent" THEN "null" ELSE u.admin
  BY <1>2 DEF Merge, Swap
<1>4. UpdateSwap(r, u) # None
  BY <1>1, RowAfterUpdate
<1> DEFINE m == Merge(GetSwap(r), u)
<1>5. UpdateSwap(r, u).data = m
  BY <1>1 DEF UpdateSwap
<1>6. m.admin # "absent" /\ m.admin = Mark(u.admin)
  BY <1>3 DEF Mark
<1> HIDE DEF m
<1> QED
  BY <1>4, <1>5, <1>6 DEF AdminColumn

LEMMA MarkAfterStatus ==
    ASSUME NEW r \in Row, NEW st \in SwapStatuses
    PROVE  /\ UpdateStatus(r, st) # None
           /\ AdminColumn(UpdateStatus(r, st)) = AdminColumn(r)
<1> DEFINE d == [GetSwap(r) EXCEPT !.status = st]
<1>1. r # None /\ r.data \in Swap /\ AdminColumn(r) \in AdminMarks
  BY NoneIsNoRecord DEF Row, Swap, AdminColumn, AdminMarks
<1>2. d \in Swap /\ d.admin = AdminColumn(r)
  BY <1>1 DEF GetSwap, Swap
<1>3. UpdateStatus(r, st) = [col |-> st, data |-> d]
  BY <1>1 DEF UpdateStatus
<1> HIDE DEF d
<1>4. UpdateStatus(r, st) \in Row /\ UpdateStatus(r, st).data = d
  BY <1>2, <1>3 DEF Row
<1>5. AdminColumn(r) # "absent"
  BY DEF AdminColumn
<1>6. AdminColumn(UpdateStatus(r, st)) = d.admin
  BY <1>2, <1>4, <1>5 DEF AdminColumn
<1> QED
  BY <1>2, <1>4, <1>6, NoneIsNoRecord

LEMMA WriteIsMarked ==
    ASSUME OneProcess, TypeOK, NEW s \in Swaps, NEW u \in Swap,
           db' = [db EXCEPT ![s] = UpdateSwap(db[s], u)],
           \/ SetCache(API, s, None)
           \/ /\ SetCache(API, s, u)
              /\ HasRow(s)
              /\ u.admin = "absent" => AdminColumn(db[s]) = "null"
    PROVE  Marked(s)'
<1>1. db[s] \in Row \cup {None} /\ API \in Procs
  BY OneProc DEF TypeOK
<1>2. CASE SetCache(API, s, None)
  BY <1>1, <1>2 DEF Marked, Cached, SetCache, TypeOK
<1>3. CASE SetCache(API, s, u) /\ HasRow(s) /\ (u.admin = "absent" => AdminColumn(db[s]) = "null")
  <2>1. db[s] \in Row /\ db'[s] = UpdateSwap(db[s], u) /\ cache'[API][s] = u
    BY <1>1, <1>3 DEF HasRow, SetCache, TypeOK
  <2> QED
    BY <1>3, <2>1, MarkAfterUpdate DEF Marked, HasRow
<1> QED
  BY <1>2, <1>3

\* What a call goes on with has the row's mark.
LEMMA FoundIsMarked ==
    ASSUME OneProcess, TypeOK, MarkInv, NEW s \in Swaps, Lookup(API, s) # None
    PROVE  /\ Lookup(API, s) \in Swap /\ HasRow(s) /\ db[s] \in Row
           /\ Mark(Lookup(API, s).admin) = AdminColumn(db[s])
<1>1. Lookup(API, s) \in Swap /\ db[s] \in Row \cup {None}
  BY OneProc, TypeSplit, LookupType DEF EngineOK
<1>2. CASE Cached(API, s)
  BY <1>1, <1>2 DEF MarkInv, Marked, Lookup, HasRow
<1>3. CASE ~ Cached(API, s)
  <2>1. HasRow(s) /\ Lookup(API, s) = GetSwap(db[s])
    BY <1>3 DEF Lookup, GetSwap, HasRow
  <2>2. GetSwap(db[s]).admin = AdminColumn(db[s])
    BY <1>1, <2>1 DEF GetSwap, Row, Swap, HasRow
  <2>3. AdminColumn(db[s]) # "absent"
    BY DEF AdminColumn
  <2> QED
    BY <1>1, <2>1, <2>2, <2>3 DEF Mark, HasRow
<1> QED
  BY <1>2, <1>3

LEMMA SettleIsMarked ==
    ASSUME OneProcess, TypeOK, NEW s \in Swaps, NEW o \in Swap, HasRow(s),
           Mark(o.admin) = AdminColumn(db[s]),
           SettleReturns(API, s, o) \/ SettleRaises(API, s, o) \/ RepriceFails(API, s, o)
    PROVE  Marked(s)'
<1>1. Faults = {} /\ API \in Procs
  BY OneProc DEF OneProcess
<1>2. CASE RepriceFails(API, s, o)
  BY <1>1, <1>2 DEF RepriceFails, SetCache, Marked, HasRow, TypeOK
<1>3. ASSUME NEW q \in Priced(o), Paid(API, s) \/ Delay(API, s, q) \/ Fail(API, s, q)
      PROVE  Marked(s)'
  <2>1. q \in Swap /\ q.admin = o.admin
    BY <1>3 DEF Priced, Swap
  <2>2. CASE Paid(API, s)
    BY <1>1, <2>2 DEF Paid, SetCache, Marked, Cached, TypeOK
  <2>3. CASE Delay(API, s, q)
    <3> DEFINE d == [q EXCEPT !.status = "delayed"]
    <3>1. d \in Swap /\ d.admin = o.admin
      BY <2>1 DEF Swap, SwapStatuses
    <3>2. db' = [db EXCEPT ![s] = UpdateSwap(db[s], d)] /\ SetCache(API, s, d)
      BY <1>1, <2>3 DEF Delay, Persist
    <3> HIDE DEF d
    <3> QED
      BY <3>1, <3>2, WriteIsMarked DEF Mark
  <2>4. CASE Fail(API, s, q)
    <3>1. cache'[API][s] = [q EXCEPT !.status = "failed"] /\ db' = db
      BY <1>1, <2>4 DEF Fail, SetCache, TypeOK
    <3>2. [q EXCEPT !.status = "failed"].admin = o.admin
      BY <2>1 DEF Swap
    <3> QED
      BY <3>1, <3>2 DEF Marked, HasRow
  <2> QED
    BY <1>3, <2>2, <2>3, <2>4
<1> QED
  BY <1>1, <1>2, <1>3 DEF SettleReturns, SettleRaises, LoseAnswer, Die

LEMMA ConfirmIsMarked ==
    ASSUME OneProcess, TypeOK, MarkInv, NEW s \in Swaps,
           NEW t \in Transactions, ConfirmReturns(API, s, t) \/ ConfirmRaises(API, s, t)
    PROVE  Marked(s)'
<1> DEFINE o == Lookup(API, s)
<1>1. Faults = {} /\ API \in Procs
  BY OneProc DEF OneProcess
<1>2. CASE UNCHANGED engineVars
  BY <1>2 DEF engineVars, MarkInv, Marked, Cached, HasRow
<1>3. ASSUME o # None, LateDeposit(API, s, o)
      PROVE  Marked(s)'
  BY <1>1, <1>3 DEF LateDeposit, SetCache, Marked, Cached, TypeOK
<1>4. ASSUME o # None, AwaitConfirmations(API, s, o)
      PROVE  Marked(s)'
  <2> DEFINE d == [o EXCEPT !.status = "awaiting_deposit"]
  <2>1. o \in Swap /\ HasRow(s) /\ Mark(o.admin) = AdminColumn(db[s])
    BY <1>4, FoundIsMarked
  <2>2. d \in Swap /\ d.admin = o.admin
    BY <2>1 DEF Swap, SwapStatuses
  <2>3. db' = [db EXCEPT ![s] = UpdateSwap(db[s], d)] /\ SetCache(API, s, d)
    BY <1>1, <1>4 DEF AwaitConfirmations, Persist
  <2> HIDE DEF d
  <2> QED
    BY <2>1, <2>2, <2>3, WriteIsMarked DEF Mark
<1>5. ASSUME o # None,
             SettleReturns(API, s, InProcessing(o)) \/ SettleRaises(API, s, InProcessing(o))
      PROVE  Marked(s)'
  <2>1. o \in Swap /\ HasRow(s) /\ Mark(o.admin) = AdminColumn(db[s])
    BY <1>5, FoundIsMarked
  <2>2. InProcessing(o) \in Swap /\ InProcessing(o).admin = o.admin
    BY <2>1 DEF InProcessing, Swap, SwapStatuses
  <2> QED
    BY <1>5, <2>1, <2>2, SettleIsMarked
<1> QED
  BY <1>2, <1>3, <1>4, <1>5 DEF ConfirmReturns, ConfirmRaises

\* A step on one swap leaves the marks of the others alone.
LEMMA StepIsMarked ==
    ASSUME OneProcess, MarkInv, NEW s \in Swaps, Frame(API, s), Marked(s)'
    PROVE  MarkInv'
<1> SUFFICES ASSUME NEW t \in Swaps \ {s}
             PROVE  Marked(t)'
  BY DEF MarkInv
<1>1. db'[t] = db[t] /\ cache'[API][t] = cache[API][t]
  BY OneProc DEF Frame
<1> QED
  BY <1>1 DEF MarkInv, Marked, Cached, HasRow

LEMMA UserIsMarked ==
    ASSUME OneProcess, TypeOK, MarkInv, NEW s \in Swaps, UserStep(s)
    PROVE  MarkInv'
<1>1. EngineOK /\ API \in Procs /\ Faults = {}
  BY TypeSplit, OneProc DEF OneProcess
<1>2. ASSUME NEW n \in Amounts, NEW st \in {"pending", "circuit_breaker"},
             CreateSwap(s, n, st)
      PROVE  MarkInv'
  <2> DEFINE o == [status |-> st, admin |-> "absent", net |-> n]
  <2>1. Frame(API, s) /\ cache'[API][s] = o /\ Stored(s, AddSwap(o))
    BY <1>1, <1>2, CreateContract
  <2>2. o \in Swap /\ AddSwap(o) \in Row /\ AddSwap(o).data = o
    BY DEF Swap, SwapStatuses, AdminMarks, AddSwap, Row
  <2>3. db'[s] = AddSwap(o) /\ db'[s] # None
    BY <2>1, <2>2, WritesSucceed, NoneIsNoRecord
  <2>4. Marked(s)'
    BY <2>1, <2>2, <2>3 DEF Marked, HasRow, AdminColumn, Mark
  <2> QED
    BY <2>1, <2>4, StepIsMarked
<1>3. CASE Deposit(s)
  BY <1>3 DEF Deposit, MarkInv, Marked, Cached, HasRow, engineVars
<1>4. ASSUME NEW t \in Transactions, UserConfirm(s, t)
      PROVE  MarkInv'
  BY <1>1, <1>4, ConfirmContract, ConfirmIsMarked, StepIsMarked DEF UserConfirm
<1>5. CASE CancelSwap(s)
  <2> DEFINE u == [Lookup(API, s) EXCEPT !.status = "cancelled"]
  <2>1. u \in Swap
    BY <1>5, FoundIsMarked DEF CancelSwap, Swap, SwapStatuses
  <2>2. SetCache(API, s, None) /\ db' = [db EXCEPT ![s] = UpdateSwap(db[s], u)]
    BY <1>1, <1>5 DEF CancelSwap, Persist
  <2> HIDE DEF u
  <2>3. Marked(s)'
    BY <2>1, <2>2, WriteIsMarked
  <2> QED
    BY <1>1, <1>5, <2>3, CancelContract, StepIsMarked
<1> QED
  BY <1>2, <1>3, <1>4, <1>5 DEF UserStep

LEMMA AdminIsMarked ==
    ASSUME OneProcess, TypeOK, MarkInv, NEW s \in Swaps, AdminStep(s)
    PROVE  MarkInv'
<1> DEFINE o == Lookup(API, s)
<1>1. EngineOK /\ API \in Procs /\ Faults = {} /\ db[s] \in Row \cup {None}
  BY TypeSplit, OneProc DEF OneProcess, TypeOK
<1>2. Frame(API, s)
  BY <1>1, SetStatusContract, ClearContract, ReleaseContract, AdminSettleContract,
     OrphanContract DEF AdminStep
<1>3. o # None =>
        o \in Swap /\ HasRow(s) /\ Mark(o.admin) = AdminColumn(db[s])
  BY FoundIsMarked
<1>4. ASSUME NEW t \in AdminTargets, SetSwapStatus(s, t)
      PROVE  Marked(s)'
  <2> DEFINE u == [o EXCEPT !.status = t, !.admin = t]
  <2>1. u \in Swap /\ u.admin # "absent" /\ HasRow(s)
    BY <1>3, <1>4, AdminTargetsKnown DEF SetSwapStatus, Swap, AdminMarks, SwapStatuses
  <2>2. /\ db' = [db EXCEPT ![s] = UpdateSwap(db[s], u)]
        /\ SetCache(API, s, None) \/ SetCache(API, s, u)
    BY <1>1, <1>4 DEF SetSwapStatus, Persist
  <2> HIDE DEF u
  <2> QED
    BY <2>1, <2>2, WriteIsMarked
<1>5. ASSUME ClearAdminOverride(s)
      PROVE  Marked(s)'
  <2> DEFINE u == [o EXCEPT !.admin = "null"]
  <2>1. u \in Swap /\ u.admin # "absent" /\ HasRow(s)
    BY <1>3, <1>5 DEF ClearAdminOverride, Swap, AdminMarks
  <2>2. /\ db' = [db EXCEPT ![s] = UpdateSwap(db[s], u)]
        /\ SetCache(API, s, None) \/ SetCache(API, s, u)
    BY <1>1, <1>5 DEF ClearAdminOverride, Persist
  <2> HIDE DEF u
  <2> QED
    BY <2>1, <2>2, WriteIsMarked
<1>6. ASSUME ReleaseCircuitBreaker(s)
      PROVE  Marked(s)'
  <2> DEFINE u == [o EXCEPT !.status = "cancelled"]
  <2>1. o \in Swap /\ HasRow(s) /\ Mark(o.admin) = AdminColumn(db[s])
    BY <1>3, <1>6 DEF ReleaseCircuitBreaker
  <2>2. CASE SettleReturns(API, s, o) \/ SettleRaises(API, s, o)
    BY <2>1, <2>2, SettleIsMarked
  <2>3. CASE SetCache(API, s, None) /\ Persist(s, UpdateSwap(db[s], u))
    <3>1. u \in Swap
      BY <2>1 DEF Swap, SwapStatuses
    <3>2. db' = [db EXCEPT ![s] = UpdateSwap(db[s], u)]
      BY <1>1, <2>3 DEF Persist
    <3> HIDE DEF u
    <3> QED
      BY <2>3, <3>1, <3>2, WriteIsMarked
  <2> QED
    BY <1>6, <2>2, <2>3 DEF ReleaseCircuitBreaker
<1>7. ASSUME AdminSettle(s)
      PROVE  Marked(s)'
  <2>1. o \in Swap /\ HasRow(s) /\ Mark(o.admin) = AdminColumn(db[s])
    BY <1>3, <1>7 DEF AdminSettle
  <2> QED
    BY <1>7, <2>1, SettleIsMarked DEF AdminSettle
<1>8. ASSUME SettleOrphaned(s)
      PROVE  Marked(s)'
  <2>1. cache' = cache /\ HasRow(s)
    BY <1>1, <1>8 DEF SettleOrphaned, Die, HasRow
  <2>2. db'[s] = UpdateStatus(db[s], "completed") \/ db'[s] = db[s]
    BY <1>1, <1>8, OrphanContract
  <2>3. /\ UpdateStatus(db[s], "completed") # None
        /\ AdminColumn(UpdateStatus(db[s], "completed")) = AdminColumn(db[s])
    BY <1>1, <2>1, MarkAfterStatus DEF HasRow, SwapStatuses
  <2> QED
    BY <2>1, <2>2, <2>3 DEF MarkInv, Marked, Cached, HasRow
<1> QED
  BY <1>2, <1>4, <1>5, <1>6, <1>7, <1>8, StepIsMarked DEF AdminStep

LEMMA BackgroundIsMarked ==
    ASSUME OneProcess, TypeOK, MarkInv, BackgroundStep
    PROVE  MarkInv'
<1>1. EngineOK /\ API = BG /\ API \in Procs
  BY TypeSplit, OneProc DEF OneProcess
<1>2. ASSUME NEW w \in Sweepers, StartSweep(w)
      PROVE  MarkInv'
  BY <1>2 DEF StartSweep, MarkInv, Marked, Cached, HasRow, engineVars
<1>3. ASSUME NEW w \in Sweepers, NEW s \in Swaps, SweepOne(w, s)
      PROVE  MarkInv'
  <2> DEFINE o == Lookup(API, s)
  <2>1. ProcOf(w) = API
    BY <1>1 DEF ProcOf
  <2>2. Frame(API, s)
    BY <1>3, <2>1, SweepContract
  <2>3. CASE UNCHANGED engineVars
    BY <2>3 DEF MarkInv, Marked, Cached, HasRow, engineVars
  <2>4. CASE o # None /\ (SettleReturns(API, s, o) \/ SettleRaises(API, s, o)
                          \/ RepriceFails(API, s, o))
    <3>1. o \in Swap /\ HasRow(s) /\ Mark(o.admin) = AdminColumn(db[s])
      BY <2>4, FoundIsMarked
    <3> QED
      BY <2>2, <2>4, <3>1, SettleIsMarked, StepIsMarked
  <2> QED
    BY <1>3, <2>1, <2>3, <2>4 DEF SweepOne
<1>4. ASSUME NEW old \in SUBSET Swaps, ExpireSwaps(old)
      PROVE  MarkInv'
  <2>1. \A t \in Swaps :
          \/ db'[t] = db[t] /\ cache'[API][t] = cache[API][t]
          \/ cache'[API][t] = None
    BY <1>1, <1>4, ExpireContract
  <2> QED
    BY <2>1 DEF MarkInv, Marked, Cached, HasRow
<1>5. ASSUME NEW seen \in SUBSET Swaps, StartScan(seen)
      PROVE  MarkInv'
  BY <1>5 DEF StartScan, MarkInv, Marked, Cached, HasRow, engineVars
<1>6. ASSUME NEW s \in Swaps, ScanOne(s)
      PROVE  MarkInv'
  BY <1>1, <1>6, ConfirmContract, ConfirmIsMarked, StepIsMarked
  DEF ScanOne, Transactions
<1> QED
  BY <1>2, <1>3, <1>4, <1>5, <1>6 DEF BackgroundStep

LEMMA ProcessIsMarked ==
    ASSUME OneProcess, TypeOK, MarkInv, ProcessStep
    PROVE  MarkInv'
<1>1. EngineOK /\ API = BG /\ API \in Procs
  BY TypeSplit, OneProc DEF OneProcess
<1>2. ASSUME NEW p \in Procs, Stop(p)
      PROVE  MarkInv'
  BY <1>2 DEF Stop, MarkInv, Marked, Cached, HasRow
<1>3. CASE Start
  <2>1. db' = db /\ \A t \in Swaps : cache'[API][t] = PendingSwap(db[t])
    BY <1>1, <1>3, StartContract
  <2> QED
    BY <2>1 DEF MarkInv, Marked, Cached, HasRow, PendingSwap, AdminColumn, Mark
<1>4. CASE Respawn
  BY <1>1, <1>4 DEF Respawn
<1> QED
  BY <1>2, <1>3, <1>4 DEF ProcessStep

LEMMA MarkStep ==
    ASSUME OneProcess, TypeOK, MarkInv, [Next]_vars
    PROVE  MarkInv'
<1>1. CASE UNCHANGED vars
  BY <1>1 DEF MarkInv, Marked, Cached, HasRow, vars, engineVars
<1>2. CASE Next
  BY <1>2, UserIsMarked, AdminIsMarked, BackgroundIsMarked, ProcessIsMarked DEF Next
<1> QED
  BY <1>1, <1>2

-----------------------------------------------------------------------------
(* The engine in one process implements the ledger of SwapLedger.          *)
(*                                                                         *)
(* For a swap no administrator has in hand, "recorded as completed" and    *)
(* "paid" are the same thing in every reachable state, so a step that      *)
(* changes the one changes the other: it is the ledger's Settle.  A step   *)
(* on a swap an administrator has in hand is ByHand, a confirmation whose  *)
(* settlement does not pay is Back, and every other step leaves the ledger *)
(* alone.                                                                  *)

Kept == PayoutInv /\ OneProcessInv

\* What the two invariants say of a swap no administrator has in hand.
Booked(s) ==
    s \notin touched =>
        /\ s \in Completed <=> sends[s] > 0
        /\ sends[s] > 0 => sends[s] = 1 /\ s \in cleared

AllBooked == \A s \in Swaps : Booked(s)

LEMMA KeptIsBooked == Kept => AllBooked
<1> SUFFICES ASSUME Kept, NEW s \in Swaps, s \notin touched
             PROVE  Booked(s)
  BY DEF AllBooked, Booked
<1>1. Safe(s) /\ Orderly(s) /\ sends[s] \in Nat
  BY MaxSendsIsNat DEF Kept, PayoutInv, OneProcessInv, TypeOK
<1>2. s \in Completed <=> sends[s] > 0
  BY <1>1 DEF Safe, CompletedWasPaid, Orderly, PaidIsDone, HasRow, Completed
<1>3. sends[s] > 0 => sends[s] = 1 /\ s \in cleared
  BY <1>1 DEF Safe, UnbackedIsIdle, Backed, Orderly, PaidIsDone
<1> QED
  BY <1>2, <1>3 DEF Booked

LEMMA KeptStaysBooked == Kept' => AllBooked'
BY KeptIsBooked, PTL

\* A step that changes the row and the payouts of one swap only.
LEMMA StepIsOnLedger ==
    ASSUME OneProcess, Kept, Kept', NEW s \in Swaps, Frame(API, s),
           sends'[s] \in {sends[s], sends[s] + 1},
           ClearedStep(s), touched' \in {touched, touched \cup {s}}
    PROVE  [Ledger!LedgerNext]_(Ledger!ledgerVars)
<1>1. /\ sends \in [Swaps -> 0..MaxSends] /\ sends' \in [Swaps -> 0..MaxSends]
      /\ \A t \in Swaps : sends[t] \in Nat
  BY MaxSendsIsNat DEF Kept, PayoutInv, TypeOK
<1>2. \A t \in Swaps \ {s} : sends'[t] = sends[t] /\ (t \in Completed' <=> t \in Completed)
  BY DEF Frame, Completed
<1>3. CASE s \in touched'
  <2>1. touched' = touched \cup {s}
    BY <1>3
  <2>2. sends' = sends \/ sends' = [sends EXCEPT ![s] = @ + 1]
    BY <1>1, <1>2
  <2>3. Completed' = Completed \cup {s} \/ Completed' = Completed \ {s}
    BY <1>2 DEF Completed
  <2>4. Ledger!ByHand(s)
    BY <2>1, <2>2, <2>3 DEF Ledger!ByHand, ClearedStep
  <2> QED
    BY <2>4 DEF Ledger!LedgerNext
<1>4. CASE s \notin touched'
  <2>1. touched' = touched /\ s \notin touched /\ Booked(s) /\ Booked(s)'
    BY <1>4, KeptIsBooked, KeptStaysBooked DEF AllBooked
  <2>2. CASE sends'[s] = sends[s]
    <3>1. sends' = sends
      BY <1>1, <1>2, <2>2
    <3>2. Completed' = Completed
      BY <1>2, <1>4, <2>1, <2>2 DEF Completed, Booked
    <3>3. cleared' = cleared \/ Ledger!Back(s)
      BY <2>1, <3>1, <3>2 DEF ClearedStep, Ledger!Back
    <3> QED
      BY <2>1, <3>1, <3>2, <3>3 DEF Ledger!ledgerVars, Ledger!LedgerNext
  <2>3. CASE sends'[s] = sends[s] + 1
    <3>1. sends'[s] = 1 /\ s \in cleared'
      BY <1>1, <1>4, <2>1, <2>3 DEF Booked
    <3>2. sends[s] = 0 /\ sends' = [sends EXCEPT ![s] = 1]
      BY <1>1, <1>2, <2>3, <3>1
    <3>3. s \notin Completed /\ Completed' = Completed \cup {s}
      BY <1>2, <1>4, <2>1, <3>1, <3>2 DEF Completed, Booked
    <3>4. cleared' = cleared \cup {s}
      BY <3>1 DEF ClearedStep
    <3>5. Ledger!Settle(s)
      BY <2>1, <3>2, <3>3, <3>4 DEF Ledger!Settle
    <3> QED
      BY <3>5 DEF Ledger!LedgerNext
  <2> QED
    BY <2>2, <2>3
<1> QED
  BY <1>3, <1>4

-----------------------------------------------------------------------------
(* The actions. *)

LEMMA SettleCounts ==
    ASSUME NEW p, NEW s, NEW o, SettleOutcome(p, s, o)
    PROVE  sends'[s] \in {sends[s], sends[s] + 1}
BY DEF SettleOutcome

LEMMA ConfirmCounts ==
    ASSUME NEW p, NEW s, ConfirmOutcome(p, s)
    PROVE  sends'[s] \in {sends[s], sends[s] + 1}
BY SettleCounts DEF ConfirmOutcome

LEMMA UserOnLedger ==
    ASSUME OneProcess, Kept, Kept', NEW s \in Swaps, UserStep(s)
    PROVE  [Ledger!LedgerNext]_(Ledger!ledgerVars)
<1>1. EngineOK /\ API \in Procs
  BY TypeSplit, ProcsType DEF Kept, PayoutInv
<1>2. CASE Deposit(s)
  BY <1>2 DEF Deposit, engineVars, Completed, Ledger!ledgerVars
<1>3. CASE ~ Deposit(s)
  <2>1. /\ Frame(API, s)
        /\ sends'[s] \in {sends[s], sends[s] + 1}
    BY <1>1, <1>3, CreateContract, CancelContract, ConfirmContract, ConfirmCounts
    DEF UserStep, UserConfirm
  <2>2. ClearedStep(s)
    BY <1>1, <1>3, ConfirmContract
    DEF UserStep, CreateSwap, UserConfirm, CancelSwap, envVars, ClearedStep
  <2>3. touched' = touched
    BY <1>3 DEF UserStep, CreateSwap, UserConfirm, CancelSwap, envVars
  <2> QED
    BY <2>1, <2>2, <2>3, StepIsOnLedger
<1> QED
  BY <1>2, <1>3

LEMMA AdminOnLedger ==
    ASSUME OneProcess, Kept, Kept', NEW s \in Swaps, AdminStep(s)
    PROVE  [Ledger!LedgerNext]_(Ledger!ledgerVars)
<1>1. EngineOK
  BY TypeSplit DEF Kept, PayoutInv
<1>2. ClearedStep(s) /\ touched' = touched \cup {s}
  BY DEF ClearedStep, AdminStep, SetSwapStatus, ClearAdminOverride, ReleaseCircuitBreaker,
     AdminSettle, SettleOrphaned, Touch
<1>3. Frame(API, s)
  BY <1>1, SetStatusContract, ClearContract, ReleaseContract, AdminSettleContract,
     OrphanContract DEF AdminStep
<1>4. sends'[s] \in {sends[s], sends[s] + 1}
  BY <1>1, SetStatusContract, ClearContract, ReleaseContract, AdminSettleContract,
     OrphanContract, SettleCounts DEF AdminStep, AdminOutcome
<1> QED
  BY <1>2, <1>3, <1>4, StepIsOnLedger

LEMMA BackgroundOnLedger ==
    ASSUME OneProcess, Kept, Kept', BackgroundStep
    PROVE  [Ledger!LedgerNext]_(Ledger!ledgerVars)
<1>1. /\ TypeOK /\ EngineOK /\ BG = API /\ API \in Procs
  BY TypeSplit, ProcsType DEF Kept, PayoutInv, OneProcess
<1>2. ASSUME NEW w \in Sweepers, StartSweep(w)
      PROVE  UNCHANGED Ledger!ledgerVars
  BY <1>2 DEF StartSweep, engineVars, envVars, Completed, Ledger!ledgerVars
<1>3. ASSUME NEW w \in Sweepers, NEW s \in Swaps, SweepOne(w, s)
      PROVE  [Ledger!LedgerNext]_(Ledger!ledgerVars)
  <2>1. w = "loop" /\ ProcOf(w) = API
    BY <1>1 DEF OneProcess, ProcOf
  <2>2. /\ Frame(API, s)
        /\ UNCHANGED engineVars \/ \E o : SettleOutcome(API, s, o)
    BY <1>1, <1>3, <2>1, SweepContract
  <2>3. sends'[s] \in {sends[s], sends[s] + 1}
    BY <2>2, SettleCounts DEF engineVars
  <2>4. ClearedStep(s) /\ touched' = touched
    BY <1>3 DEF SweepOne, envVars, ClearedStep
  <2> QED
    BY <2>2, <2>3, <2>4, StepIsOnLedger
<1>4. ASSUME NEW old \in SUBSET Swaps, ExpireSwaps(old)
      PROVE  UNCHANGED Ledger!ledgerVars
  <2>1. \A t \in Swaps :
           \/ db'[t] = db[t]
           \/ /\ db[t] # None /\ db[t].col \in Expirable
              /\ db'[t].col = "timed_out"
    BY <1>1, <1>4, ExpireContract
  <2>2. Completed' = Completed
    BY <2>1 DEF Completed, Expirable
  <2>3. sends' = sends /\ cleared' = cleared /\ touched' = touched
    BY <1>4 DEF ExpireSwaps, envVars
  <2> QED
    BY <2>2, <2>3 DEF Ledger!ledgerVars
<1>5. ASSUME NEW seen \in SUBSET Swaps, StartScan(seen)
      PROVE  UNCHANGED Ledger!ledgerVars
  BY <1>5 DEF StartScan, engineVars, envVars, Completed, Ledger!ledgerVars
<1>6. ASSUME NEW s \in Swaps, ScanOne(s)
      PROVE  [Ledger!LedgerNext]_(Ledger!ledgerVars)
  <2>1. Frame(API, s) /\ ConfirmOutcome(API, s) /\ ClearedStep(s)
    BY <1>1, <1>6, ConfirmContract DEF ScanOne, Transactions
  <2>2. touched' = touched
    BY <1>6 DEF ScanOne
  <2> QED
    BY <2>1, <2>2, ConfirmCounts, StepIsOnLedger
<1> QED
  BY <1>2, <1>3, <1>4, <1>5, <1>6 DEF BackgroundStep

LEMMA ProcessOnLedger ==
    ASSUME ProcessStep
    PROVE  UNCHANGED Ledger!ledgerVars
BY DEF ProcessStep, Stop, Start, Respawn, envVars, Completed, Ledger!ledgerVars

-----------------------------------------------------------------------------

LEMMA LedgerStart == Init => Ledger!LedgerInit
BY DEF Init, Completed, Ledger!LedgerInit

LEMMA LedgerStep ==
    ASSUME OneProcess, Kept, Kept', [Next]_vars
    PROVE  [Ledger!LedgerNext]_(Ledger!ledgerVars)
<1>1. CASE UNCHANGED vars
  BY <1>1 DEF vars, engineVars, envVars, Completed, Ledger!ledgerVars
<1>2. CASE Next
  BY <1>2, UserOnLedger, AdminOnLedger, BackgroundOnLedger, ProcessOnLedger DEF Next
<1> QED
  BY <1>1, <1>2

\* In one process without faults the engine implements the ledger: every payout
\* of a swap no administrator has in hand is the first, has its grounds and is
\* recorded in the same step, and no step takes the record back.
THEOREM OneProcessImplementsLedger ==
    ASSUME OneProcess
    PROVE  Spec => ImplementsLedger
<1>1. Spec => []Kept
  BY OneProcessInvariant DEF Kept
<1>2. Kept /\ Kept' /\ [Next]_vars => [Ledger!LedgerNext]_(Ledger!ledgerVars)
  BY LedgerStep
<1> QED
  BY <1>1, <1>2, LedgerStart, PTL DEF Spec, ImplementsLedger, Ledger!LedgerSpec

-----------------------------------------------------------------------------
(* No confirmed deposit is overlooked.                                     *)
(*                                                                         *)
(* Until a swap is paid, its row stays in one of the states that a sweep,  *)
(* the expiry or a scan takes up, or that an administrator was told of.    *)
(* A flagged swap is the delicate case: its row is only taken up while the *)
(* cached copy says so too, so no settlement may ever have failed on it.   *)

OpenStates ==
    {"pending", "awaiting_deposit", "delayed", "cancelled", "timed_out", "late_deposit"}

Flagged(s) == HasRow(s) /\ db[s].data.status = "circuit_breaker"

Open(s) ==
    s \notin touched =>
        /\ s \in confirmed => HasRow(s)
        /\ HasRow(s) /\ sends[s] = 0 => db[s].col \in OpenStates
        /\ Flagged(s) =>
              /\ s \notin sweep["loop"]
              /\ Cached(API, s) => cache[API][s].status # "failed"

OpenInv == \A s \in Swaps : Open(s)

\* A step on one swap leaves the others as open as they were.
LEMMA StepOnOneOpen ==
    ASSUME OneProcess, OpenInv, NEW s \in Swaps, Frame(API, s),
           s \in touched' \/ Open(s)', confirmed' = confirmed,
           sweep'["loop"] \subseteq sweep["loop"], touched \subseteq touched'
    PROVE  OpenInv'
<1>1. ASSUME NEW t \in Swaps \ {s}
      PROVE  Open(t)'
  <2>1. db'[t] = db[t] /\ sends'[t] = sends[t] /\ cache'[API][t] = cache[API][t]
    BY OneProc DEF Frame
  <2> QED
    BY <2>1 DEF OpenInv, Open, Flagged, HasRow, Cached
<1>2. Open(s)'
  BY DEF Open
<1> QED
  BY <1>1, <1>2 DEF OpenInv

\* A row that is written with a status of OpenStates.
LEMMA WriteIsOpen ==
    ASSUME OneProcess, PayoutInv, NEW s \in Swaps, NEW u \in Swap, HasRow(s),
           Stored(s, UpdateSwap(db[s], u)), u.status \in OpenStates
    PROVE  Open(s)'
<1>1. db[s] \in Row \cup {None} /\ db[s] # None
  BY DEF PayoutInv, TypeOK, HasRow
<1>2. db'[s] # None /\ db'[s].col = u.status /\ db'[s].data.status = u.status
  BY <1>1, RowAfterUpdate, WritesSucceed
<1> QED
  BY <1>2 DEF Open, Flagged, HasRow, OpenStates

\* A settlement of a swap that is not flagged.
LEMMA SettleIsOpen ==
    ASSUME OneProcess, PayoutInv, NEW s \in Swaps, NEW o \in Swap, Open(s), s \notin touched,
           HasRow(s), ~ Flagged(s), SettleOutcome(API, s, o)
    PROVE  Open(s)'
<1>1. db[s] \in Row \cup {None} /\ db[s] # None /\ sends[s] \in Nat /\ Faults = {}
  BY MaxSendsIsNat DEF PayoutInv, TypeOK, HasRow, OneProcess
<1>2. CASE sends'[s] = sends[s] + 1 /\ Stored(s, CompleteSwap(db[s]))
  <2>1. db'[s] # None /\ db'[s].data.status = "completed"
    BY <1>1, <1>2, RowAfterComplete, WritesSucceed
  <2> QED
    BY <1>1, <1>2, <2>1 DEF Open, Flagged, HasRow
<1>3. CASE /\ cache'[API][s] \in Swap /\ cache'[API][s].status = "delayed"
           /\ Stored(s, UpdateSwap(db[s], cache'[API][s]))
  BY <1>3, WriteIsOpen DEF OpenStates
<1>4. CASE sends'[s] = sends[s] /\ db'[s] = db[s]
  BY <1>4 DEF Open, Flagged, HasRow
<1> QED
  BY <1>1, <1>2, <1>3, <1>4 DEF SettleOutcome

LEMMA ConfirmIsOpen ==
    ASSUME OneProcess, PayoutInv, OneProcessInv, OpenInv, NEW s \in Swaps,
           Frame(API, s), ConfirmOutcome(API, s),
           sweep' = sweep, touched' = touched, confirmed' = confirmed
    PROVE  OpenInv'
<1> SUFFICES ASSUME s \notin touched
             PROVE  Open(s)'
  BY StepOnOneOpen
<1>1. Orderly(s) /\ Open(s)
  BY DEF OneProcessInv, OpenInv
<1>2. CASE sends'[s] = sends[s] /\ cache'[API][s] = cache[API][s] /\ db'[s] = db[s]
  BY <1>1, <1>2 DEF Open, Flagged, HasRow, Cached
<1>3. CASE /\ Cached(API, s) \/ (db[s] # None /\ db[s].data.status \in LateWhenStored)
           /\ \E d \in Swap : d.status = "late_deposit" /\ Stored(s, UpdateSwap(db[s], d))
  <2>1. HasRow(s)
    BY <1>1, <1>3 DEF Orderly, CacheFollowsRow, HasRow
  <2> QED
    BY <1>3, <2>1, WriteIsOpen DEF OpenStates
<1>4. ASSUME Cached(API, s), cache[API][s].status \in Unconfirmed
      PROVE  HasRow(s) /\ ~ Flagged(s)
  BY <1>1, <1>4 DEF Orderly, CacheFollowsRow, Flagged, Unconfirmed
<1>5. CASE /\ Cached(API, s) /\ cache[API][s].status \in Unconfirmed
           /\ cache'[API][s] \in Swap /\ cache'[API][s].status = "awaiting_deposit"
           /\ Stored(s, UpdateSwap(db[s], cache'[API][s]))
  BY <1>4, <1>5, WriteIsOpen DEF OpenStates
<1>6. CASE /\ Cached(API, s) /\ cache[API][s].status \in Unconfirmed
           /\ \E o \in Swap : o.status = "processing" /\ SettleOutcome(API, s, o)
  BY <1>1, <1>4, <1>6, SettleIsOpen
<1> QED
  BY <1>2, <1>3, <1>5, <1>6 DEF ConfirmOutcome

LEMMA UserIsOpen ==
    ASSUME OneProcess, PayoutInv, OneProcessInv, OpenInv, NEW s \in Swaps, UserStep(s)
    PROVE  OpenInv'
<1>1. EngineOK /\ API \in Procs /\ Orderly(s) /\ Open(s)
  BY TypeSplit, ProcsType DEF PayoutInv, OneProcessInv, OpenInv
<1>2. ASSUME NEW n \in Amounts, NEW st \in {"pending", "circuit_breaker"},
             CreateSwap(s, n, st)
      PROVE  OpenInv'
  <2> DEFINE o == [status |-> st, admin |-> "absent", net |-> n]
  <2>1. Frame(API, s) /\ cache'[API][s] = o /\ Stored(s, AddSwap(o))
    BY <1>1, <1>2, CreateContract
  <2>2. /\ sweep' = sweep /\ touched' = touched /\ confirmed' = confirmed
        /\ db[s] = None /\ s \notin touched
    BY <1>2 DEF CreateSwap, loopVars, envVars
  <2>3. o \in Swap /\ AddSwap(o) \in Row /\ AddSwap(o).col = "pending"
    BY DEF Swap, SwapStatuses, AdminMarks, AddSwap, Row
  <2>4. db'[s] = AddSwap(o) /\ AddSwap(o) # None
    BY <2>1, <2>3, NoneIsNoRecord, WritesSucceed
  <2>5. s \notin sweep'["loop"]
    BY <1>1, <2>2 DEF Orderly, SweptIsConfirmed, HasRow
  <2>6. cache'[API][s].status # "failed"
    BY <2>1
  <2> HIDE DEF o
  <2>7. Open(s)'
    BY <2>3, <2>4, <2>5, <2>6 DEF Open, Flagged, HasRow, OpenStates
  <2> QED
    BY <2>1, <2>2, <2>7, StepOnOneOpen
<1>3. CASE Deposit(s)
  <2>1. /\ confirmed' = confirmed \cup {s}
        /\ db' = db /\ cache' = cache /\ sends' = sends /\ sweep' = sweep
        /\ touched' = touched
    BY <1>3 DEF Deposit, engineVars, loopVars
  <2>2. s \notin touched => HasRow(s)
    BY <1>1, <1>3, OneProc DEF Deposit, Orderly, CacheFollowsRow, HasRow, Cached
  <2> QED
    BY <2>1, <2>2 DEF OpenInv, Open, Flagged, HasRow, Cached
<1>4. ASSUME NEW t \in Transactions, UserConfirm(s, t)
      PROVE  OpenInv'
  <2>1. Frame(API, s) /\ ConfirmOutcome(API, s)
    BY <1>1, <1>4, ConfirmContract DEF UserConfirm
  <2>2. sweep' = sweep /\ touched' = touched /\ confirmed' = confirmed
    BY <1>4 DEF UserConfirm, loopVars
  <2> QED
    BY <2>1, <2>2, ConfirmIsOpen
<1>5. CASE CancelSwap(s)
  <2>1. /\ Frame(API, s)
        /\ Cached(API, s) \/ HasRow(s)
        /\ \E u \in Swap : u.status = "cancelled" /\ Stored(s, UpdateSwap(db[s], u))
    BY <1>1, <1>5, CancelContract DEF HasRow
  <2>2. sweep' = sweep /\ touched' = touched /\ confirmed' = confirmed
    BY <1>5 DEF CancelSwap, loopVars, envVars
  <2>3. ASSUME s \notin touched
        PROVE  Open(s)'
    <3>1. HasRow(s)
      BY <1>1, <2>1, <2>3 DEF Orderly, CacheFollowsRow
    <3> QED
      BY <2>1, <3>1, WriteIsOpen DEF OpenStates
  <2> QED
    BY <2>1, <2>2, <2>3, StepOnOneOpen
<1> QED
  BY <1>2, <1>3, <1>4, <1>5 DEF UserStep

LEMMA AdminIsOpen ==
    ASSUME OneProcess, PayoutInv, OpenInv, NEW s \in Swaps, AdminStep(s)
    PROVE  OpenInv'
<1>1. EngineOK
  BY TypeSplit DEF PayoutInv
<1>2. touched' = touched \cup {s} /\ sweep' = sweep /\ confirmed' = confirmed
  BY DEF AdminStep, SetSwapStatus, ClearAdminOverride, ReleaseCircuitBreaker,
     AdminSettle, SettleOrphaned, Touch, loopVars
<1>3. Frame(API, s)
  BY <1>1, SetStatusContract, ClearContract, ReleaseContract, AdminSettleContract,
     OrphanContract DEF AdminStep
<1> QED
  BY <1>2, <1>3, StepOnOneOpen

\* No sweep takes up a flagged swap: it is delayed neither in the table nor in the
\* cache, which follows the table.
LEMMA StartSweepIsOpen ==
    ASSUME OneProcess, PayoutInv, OneProcessInv, OpenInv, NEW w \in Sweepers, StartSweep(w)
    PROVE  OpenInv'
<1>1. w = "loop" /\ ProcOf(w) = API
  BY DEF OneProcess, ProcOf
<1>2. /\ db' = db /\ cache' = cache /\ sends' = sends /\ touched' = touched
      /\ confirmed' = confirmed /\ sweep'["loop"] = Delayed(API)
  BY <1>1 DEF StartSweep, engineVars, envVars, PayoutInv, TypeOK
<1>3. ASSUME NEW t \in Swaps, t \notin touched, Flagged(t)
      PROVE  t \notin Delayed(API)
  <2>1. Orderly(t) /\ RowAgrees(t)
    BY DEF OneProcessInv, PayoutInv, Safe
  <2>2. ~ DelayedInStore(t)
    BY <1>3, <2>1 DEF DelayedInStore, RowAgrees, Flagged
  <2>3. ~ DelayedInCache(API, t)
    BY <1>3, <2>1 DEF DelayedInCache, Orderly, CacheFollowsRow, Flagged
  <2> QED
    BY <2>2, <2>3 DEF Delayed
<1> QED
  BY <1>2, <1>3 DEF OpenInv, Open, Flagged, HasRow, Cached

LEMMA SweepIsOpen ==
    ASSUME OneProcess, PayoutInv, OneProcessInv, OpenInv, NEW w \in Sweepers,
           NEW s \in Swaps, SweepOne(w, s)
    PROVE  OpenInv'
<1>1. w = "loop" /\ ProcOf(w) = API /\ TypeOK
  BY DEF OneProcess, ProcOf, PayoutInv
<1>2. /\ Frame(API, s) /\ s \in sweep["loop"] /\ sweep'["loop"] \subseteq sweep["loop"]
      /\ \/ UNCHANGED engineVars
         \/ Lookup(API, s) \in Swap /\ SettleOutcome(API, s, Lookup(API, s))
  BY <1>1, SweepContract
<1>3. touched' = touched /\ confirmed' = confirmed
  BY DEF SweepOne, envVars
<1>4. ASSUME s \notin touched
      PROVE  Open(s)'
  <2>1. Open(s) /\ HasRow(s) /\ ~ Flagged(s)
    BY <1>2, <1>4 DEF OpenInv, Open, OneProcessInv, Orderly, SweptIsConfirmed
  <2>2. CASE UNCHANGED engineVars
    BY <1>2, <1>3, <2>1, <2>2 DEF engineVars, Open, Flagged, HasRow, Cached
  <2>3. CASE Lookup(API, s) \in Swap /\ SettleOutcome(API, s, Lookup(API, s))
    BY <1>4, <2>1, <2>3, SettleIsOpen
  <2> QED
    BY <1>2, <2>2, <2>3
<1> QED
  BY <1>2, <1>3, <1>4, StepOnOneOpen

LEMMA BackgroundIsOpen ==
    ASSUME OneProcess, PayoutInv, OneProcessInv, OpenInv, BackgroundStep
    PROVE  OpenInv'
<1>1. EngineOK /\ BG = API /\ API \in Procs /\ Faults = {}
  BY TypeSplit, ProcsType DEF PayoutInv, OneProcess
<1>2. ASSUME NEW old \in SUBSET Swaps, ExpireSwaps(old)
      PROVE  OpenInv'
  <2>1. sweep' = sweep /\ touched' = touched /\ confirmed' = confirmed
    BY <1>2 DEF ExpireSwaps, loopVars, envVars
  <2>2. \A t \in Swaps :
          /\ sends'[t] = sends[t]
          /\ \/ db'[t] = db[t] /\ cache'[API][t] = cache[API][t]
             \/ /\ db'[t] \in Row
                /\ db'[t].col = "timed_out" /\ db'[t].data.status = "timed_out"
    BY <1>1, <1>2, ExpireContract
  <2> QED
    BY <2>1, <2>2, NoneIsNoRecord DEF OpenInv, Open, Flagged, HasRow, Cached, OpenStates
<1>3. ASSUME NEW seen \in SUBSET Swaps, StartScan(seen)
      PROVE  OpenInv'
  BY <1>3 DEF StartScan, OpenInv, Open, Flagged, HasRow, Cached, engineVars, envVars
<1>4. ASSUME NEW s \in Swaps, ScanOne(s)
      PROVE  OpenInv'
  <2>1. Frame(API, s) /\ ConfirmOutcome(API, s)
    BY <1>1, <1>4, ConfirmContract DEF ScanOne, Transactions
  <2>2. sweep' = sweep /\ touched' = touched /\ confirmed' = confirmed
    BY <1>4 DEF ScanOne
  <2> QED
    BY <2>1, <2>2, ConfirmIsOpen
<1> QED
  BY <1>2, <1>3, <1>4, StartSweepIsOpen, SweepIsOpen DEF BackgroundStep

LEMMA ProcessIsOpen ==
    ASSUME OneProcess, PayoutInv, OpenInv, ProcessStep
    PROVE  OpenInv'
<1>1. EngineOK /\ BG = API /\ API \in Procs
  BY TypeSplit, ProcsType DEF PayoutInv, OneProcess
<1>2. ASSUME NEW p \in Procs, Stop(p)
      PROVE  OpenInv'
  BY <1>2 DEF Stop, OpenInv, Open, Flagged, HasRow, Cached, loopVars, envVars
<1>3. CASE Start
  <2>1. /\ db' = db /\ sends' = sends /\ touched' = touched /\ confirmed' = confirmed
        /\ sweep'["loop"] = {}
        /\ \A t \in Swaps : cache'[API][t] = PendingSwap(db[t])
    BY <1>1, <1>3, StartContract DEF Start, envVars, OneProcess
  <2> QED
    BY <2>1 DEF OpenInv, Open, Flagged, HasRow, Cached, PendingSwap
<1>4. CASE Respawn
  BY <1>1, <1>4 DEF Respawn
<1> QED
  BY <1>2, <1>3, <1>4 DEF ProcessStep

LEMMA OpenStep ==
    ASSUME OneProcess, Kept, OpenInv, [Next]_vars
    PROVE  OpenInv'
<1>1. CASE UNCHANGED vars
  BY <1>1 DEF OpenInv, Open, Flagged, HasRow, Cached, vars, engineVars, loopVars, envVars
<1>2. CASE Next
  BY <1>2, UserIsOpen, AdminIsOpen, BackgroundIsOpen, ProcessIsOpen DEF Next, Kept
<1> QED
  BY <1>1, <1>2

\* Nobody but an administrator marks a row.
Unmarked(s) == s \notin touched /\ HasRow(s) => AdminColumn(db[s]) = "null"
UnmarkedInv == \A s \in Swaps : Unmarked(s)

\* A settlement writes the row with the mark that it had.
LEMMA SettleKeepsMark ==
    ASSUME OneProcess, TypeOK, NEW s \in Swaps, NEW o \in Swap, HasRow(s),
           Mark(o.admin) = AdminColumn(db[s]),
           SettleReturns(API, s, o) \/ SettleRaises(API, s, o) \/ RepriceFails(API, s, o)
    PROVE  AdminColumn(db'[s]) = AdminColumn(db[s])
<1>1. Faults = {} /\ db[s] \in Row
  BY DEF OneProcess, TypeOK, HasRow
<1>2. CASE RepriceFails(API, s, o)
  BY <1>2 DEF RepriceFails
<1>3. ASSUME NEW q \in Priced(o), Paid(API, s) \/ Delay(API, s, q) \/ Fail(API, s, q)
      PROVE  AdminColumn(db'[s]) = AdminColumn(db[s])
  <2>1. CASE Paid(API, s)
    <3>1. db'[s] = UpdateStatus(db[s], "completed")
      BY <1>1, <2>1 DEF Paid, Persist, CompleteSwap, UpdateStatus, TypeOK
    <3> QED
      BY <1>1, <3>1, MarkAfterStatus DEF SwapStatuses
  <2>2. CASE Delay(API, s, q)
    <3> DEFINE d == [q EXCEPT !.status = "delayed"]
    <3>1. d \in Swap /\ d.admin = o.admin
      BY <1>3 DEF Priced, Swap, SwapStatuses
    <3>2. db'[s] = UpdateSwap(db[s], d)
      BY <1>1, <2>2 DEF Delay, Persist, TypeOK
    <3> HIDE DEF d
    <3> QED
      BY <1>1, <3>1, <3>2, MarkAfterUpdate DEF Mark
  <2>3. CASE Fail(API, s, q)
    BY <2>3 DEF Fail
  <2> QED
    BY <1>3, <2>1, <2>2, <2>3
<1> QED
  BY <1>1, <1>2, <1>3 DEF SettleReturns, SettleRaises, LoseAnswer, Die

\* So does a call that writes what it found, with another status.
LEMMA WriteKeepsMark ==
    ASSUME OneProcess, TypeOK, MarkInv, NEW s \in Swaps, Lookup(API, s) # None,
           NEW st \in SwapStatuses,
           Persist(s, UpdateSwap(db[s], [Lookup(API, s) EXCEPT !.status = st]))
    PROVE  HasRow(s) /\ AdminColumn(db'[s]) = AdminColumn(db[s])
<1> DEFINE d == [Lookup(API, s) EXCEPT !.status = st]
<1>1. /\ Lookup(API, s) \in Swap /\ HasRow(s) /\ db[s] \in Row
      /\ Mark(Lookup(API, s).admin) = AdminColumn(db[s])
  BY FoundIsMarked
<1>2. d \in Swap /\ d.admin = Lookup(API, s).admin
  BY <1>1 DEF Swap
<1>3. db'[s] = UpdateSwap(db[s], d)
  BY DEF Persist, TypeOK, OneProcess
<1> HIDE DEF d
<1> QED
  BY <1>1, <1>2, <1>3, MarkAfterUpdate DEF Mark

LEMMA ConfirmKeepsMark ==
    ASSUME OneProcess, TypeOK, MarkInv, NEW s \in Swaps,
           NEW t \in Transactions, ConfirmReturns(API, s, t) \/ ConfirmRaises(API, s, t)
    PROVE  \/ db'[s] = db[s]
           \/ HasRow(s) /\ AdminColumn(db'[s]) = AdminColumn(db[s])
<1> DEFINE o == Lookup(API, s)
<1>1. CASE UNCHANGED engineVars
  BY <1>1 DEF engineVars
<1>2. ASSUME o # None, LateDeposit(API, s, o) \/ AwaitConfirmations(API, s, o)
      PROVE  HasRow(s) /\ AdminColumn(db'[s]) = AdminColumn(db[s])
  BY <1>2, WriteKeepsMark DEF LateDeposit, AwaitConfirmations, SwapStatuses
<1>3. ASSUME o # None,
             SettleReturns(API, s, InProcessing(o)) \/ SettleRaises(API, s, InProcessing(o))
      PROVE  HasRow(s) /\ AdminColumn(db'[s]) = AdminColumn(db[s])
  <2>1. o \in Swap /\ HasRow(s) /\ Mark(o.admin) = AdminColumn(db[s])
    BY <1>3, FoundIsMarked
  <2>2. InProcessing(o) \in Swap /\ InProcessing(o).admin = o.admin
    BY <2>1 DEF InProcessing, Swap, SwapStatuses
  <2> QED
    BY <1>3, <2>1, <2>2, SettleKeepsMark
<1> QED
  BY <1>1, <1>2, <1>3 DEF ConfirmReturns, ConfirmRaises

LEMMA StepOnOneUnmarked ==
    ASSUME UnmarkedInv, NEW s \in Swaps, touched \subseteq touched',
           \A t \in Swaps \ {s} : db'[t] = db[t],
           s \in touched' \/ Unmarked(s)'
    PROVE  UnmarkedInv'
BY DEF UnmarkedInv, Unmarked, HasRow

LEMMA UserIsUnmarked ==
    ASSUME OneProcess, PayoutInv, OneProcessInv, MarkInv, UnmarkedInv,
           NEW s \in Swaps, UserStep(s)
    PROVE  UnmarkedInv'
<1>1. EngineOK /\ API \in Procs /\ TypeOK
  BY TypeSplit, OneProc DEF PayoutInv
<1>2. ASSUME NEW n \in Amounts, NEW st \in {"pending", "circuit_breaker"},
             CreateSwap(s, n, st)
      PROVE  UnmarkedInv'
  <2> DEFINE o == [status |-> st, admin |-> "absent", net |-> n]
  <2>1. Frame(API, s) /\ Stored(s, AddSwap(o)) /\ touched' = touched
    BY <1>1, <1>2, CreateContract DEF CreateSwap, envVars
  <2>2. db'[s] = AddSwap(o)
    BY <2>1, WritesSucceed
  <2>3. AdminColumn(db'[s]) = "null"
    BY <2>2 DEF AdminColumn, AddSwap
  <2> QED
    BY <2>1, <2>3, StepOnOneUnmarked DEF Unmarked, Frame
<1>3. CASE Deposit(s)
  BY <1>3 DEF Deposit, UnmarkedInv, Unmarked, HasRow, engineVars
<1>4. ASSUME NEW t \in Transactions, UserConfirm(s, t)
      PROVE  UnmarkedInv'
  <2>1. /\ Frame(API, s) /\ touched' = touched
        /\ ConfirmReturns(API, s, t) \/ ConfirmRaises(API, s, t)
    BY <1>1, <1>4, ConfirmContract DEF UserConfirm
  <2>2. Unmarked(s)'
    BY <1>1, <2>1, ConfirmKeepsMark DEF UnmarkedInv, Unmarked, HasRow
  <2> QED
    BY <2>1, <2>2, StepOnOneUnmarked DEF Frame
<1>5. CASE CancelSwap(s)
  <2>1. Frame(API, s) /\ touched' = touched
    BY <1>1, <1>5, CancelContract DEF CancelSwap, envVars
  <2>2. HasRow(s) /\ AdminColumn(db'[s]) = AdminColumn(db[s])
    BY <1>1, <1>5, WriteKeepsMark DEF CancelSwap, SwapStatuses
  <2> QED
    BY <2>1, <2>2, StepOnOneUnmarked DEF Frame, UnmarkedInv, Unmarked
<1> QED
  BY <1>2, <1>3, <1>4, <1>5 DEF UserStep

LEMMA AdminIsUnmarked ==
    ASSUME OneProcess, PayoutInv, UnmarkedInv, NEW s \in Swaps, AdminStep(s)
    PROVE  UnmarkedInv'
<1>1. EngineOK
  BY TypeSplit DEF PayoutInv
<1>2. touched' = touched \cup {s}
  BY DEF AdminStep, SetSwapStatus, ClearAdminOverride, ReleaseCircuitBreaker,
     AdminSettle, SettleOrphaned, Touch
<1>3. Frame(API, s)
  BY <1>1, SetStatusContract, ClearContract, ReleaseContract, AdminSettleContract,
     OrphanContract DEF AdminStep
<1> QED
  BY <1>2, <1>3, StepOnOneUnmarked DEF Frame

LEMMA BackgroundIsUnmarked ==
    ASSUME OneProcess, PayoutInv, MarkInv, UnmarkedInv, BackgroundStep
    PROVE  UnmarkedInv'
<1>1. EngineOK /\ TypeOK /\ BG = API /\ API \in Procs /\ Faults = {}
  BY TypeSplit, ProcsType DEF PayoutInv, OneProcess
<1>2. ASSUME NEW w \in Sweepers, StartSweep(w)
      PROVE  UnmarkedInv'
  BY <1>2 DEF StartSweep, UnmarkedInv, Unmarked, HasRow, engineVars, envVars
<1>3. ASSUME NEW w \in Sweepers, NEW s \in Swaps, SweepOne(w, s)
      PROVE  UnmarkedInv'
  <2> DEFINE o == Lookup(API, s)
  <2>1. ProcOf(w) = API
    BY <1>1 DEF ProcOf
  <2>2. Frame(API, s) /\ touched' = touched
    BY <1>1, <1>3, <2>1, SweepContract DEF SweepOne, envVars
  <2>3. CASE UNCHANGED engineVars
    BY <2>2, <2>3 DEF UnmarkedInv, Unmarked, HasRow, engineVars
  <2>4. CASE o # None /\ (SettleReturns(API, s, o) \/ SettleRaises(API, s, o)
                          \/ RepriceFails(API, s, o))
    <3>1. o \in Swap /\ HasRow(s) /\ Mark(o.admin) = AdminColumn(db[s])
      BY <1>1, <2>4, FoundIsMarked
    <3>2. AdminColumn(db'[s]) = AdminColumn(db[s])
      BY <1>1, <2>4, <3>1, SettleKeepsMark
    <3> QED
      BY <2>2, <3>1, <3>2, StepOnOneUnmarked DEF Frame, UnmarkedInv, Unmarked
  <2> QED
    BY <1>3, <2>1, <2>3, <2>4 DEF SweepOne
<1>4. ASSUME NEW old \in SUBSET Swaps, ExpireSwaps(old)
      PROVE  UnmarkedInv'
  <2>1. ASSUME NEW t \in Swaps
        PROVE  \/ db'[t] = db[t]
               \/ /\ HasRow(t)
                  /\ db'[t] = [col |-> "timed_out",
                               data |-> [db[t].data EXCEPT !.status = "timed_out"]]
    BY <1>1, <1>4 DEF ExpireSwaps, HasRow
  <2>2. ASSUME NEW r \in Row
        PROVE  AdminColumn([col |-> "timed_out",
                            data |-> [r.data EXCEPT !.status = "timed_out"]])
               = AdminColumn(r)
    BY DEF AdminColumn, Row, Swap
  <2>3. touched' = touched /\ \A t \in Swaps : db[t] \in Row \cup {None}
    BY <1>1, <1>4 DEF ExpireSwaps, envVars, TypeOK
  <2> QED
    BY <2>1, <2>2, <2>3 DEF UnmarkedInv, Unmarked, HasRow
<1>5. ASSUME NEW seen \in SUBSET Swaps, StartScan(seen)
      PROVE  UnmarkedInv'
  BY <1>5 DEF StartScan, UnmarkedInv, Unmarked, HasRow, engineVars, envVars
<1>6. ASSUME NEW s \in Swaps, ScanOne(s)
      PROVE  UnmarkedInv'
  <2>1. /\ Frame(API, s) /\ touched' = touched
        /\ s \in Transactions
        /\ ConfirmReturns(API, s, s) \/ ConfirmRaises(API, s, s)
    BY <1>1, <1>6, ConfirmContract DEF ScanOne, Transactions
  <2>2. Unmarked(s)'
    BY <1>1, <2>1, ConfirmKeepsMark DEF UnmarkedInv, Unmarked, HasRow
  <2> QED
    BY <2>1, <2>2, StepOnOneUnmarked DEF Frame
<1> QED
  BY <1>2, <1>3, <1>4, <1>5, <1>6 DEF BackgroundStep

LEMMA UnmarkedStep ==
    ASSUME OneProcess, Kept, MarkInv, UnmarkedInv, [Next]_vars
    PROVE  UnmarkedInv'
<1>1. CASE UNCHANGED vars
  BY <1>1 DEF UnmarkedInv, Unmarked, HasRow, vars, engineVars, envVars
<1>2. CASE ProcessStep
  BY <1>2 DEF ProcessStep, Stop, Start, Respawn, UnmarkedInv, Unmarked, HasRow, envVars
<1> QED
  BY <1>1, <1>2, UserIsUnmarked, AdminIsUnmarked, BackgroundIsUnmarked DEF Next, Kept

-----------------------------------------------------------------------------

\* What the invariants leave of a confirmed deposit.
LEMMA OpenHasAWayOn ==
    ASSUME OneProcess, Kept, MarkInv, OpenInv, UnmarkedInv
    PROVE  DepositHasAWayOn
<1> SUFFICES ASSUME NEW s \in (confirmed \cap Swaps) \ touched
             PROVE  /\ db[s] # None
                    /\ \/ Answered(s) \/ Stuck(s)
                       \/ SweepTakes(s) \/ ExpiryTakes(s) \/ ScanReports(s)
  BY DEF DepositHasAWayOn
<1> DEFINE o == Lookup(API, s)
<1>1. /\ s \in Swaps /\ s \notin touched /\ TypeOK /\ EngineOK
      /\ BG = API /\ API \in Procs /\ sends[s] \in Nat
  BY TypeSplit, ProcsType, MaxSendsIsNat DEF Kept, PayoutInv, TypeOK, OneProcess
<1>2. Orderly(s) /\ Open(s) /\ RowAgrees(s) /\ Unmarked(s)
  BY <1>1 DEF Kept, OneProcessInv, OpenInv, PayoutInv, Safe, UnmarkedInv
<1>3. HasRow(s) /\ db[s] \in Row
  BY <1>1, <1>2 DEF Open, HasRow, TypeOK
<1> SUFFICES ASSUME ~ Answered(s), ~ Stuck(s), ~ SweepTakes(s), ~ ExpiryTakes(s)
             PROVE  ScanReports(s)
  BY <1>3 DEF HasRow
<1>4. sends[s] = 0 /\ db[s].col \in OpenStates \ {"late_deposit"}
  BY <1>1, <1>2, <1>3 DEF Answered, Open, HasRow
<1>5. o # None /\ o \in Swap /\ Mark(o.admin) = "null"
  <2>1. o # None
    BY <1>3, GetSwapType DEF Lookup, Cached, HasRow
  <2> QED
    BY <1>1, <1>2, <1>3, <2>1, FoundIsMarked DEF Kept, Unmarked
<1>6. o.admin \notin AdminFinal
  BY <1>5 DEF Mark, AdminFinal
<1>7. db[s].col # "delayed"
  BY <1>3 DEF SweepTakes, DelayedInStore, HasRow
<1>8. db[s].data.status \in {"cancelled", "timed_out", "circuit_breaker"}
  BY <1>2, <1>3, <1>4, <1>7 DEF RowAgrees, HasRow, OpenStates, ExpiryTakes, Expirable
<1>9. db[s].col \in {"pending", "cancelled", "timed_out"}
  BY <1>2, <1>3, <1>4, <1>7, <1>8 DEF RowAgrees, HasRow, OpenStates
<1>10. CASE Cached(API, s)
  <2>1. o = cache[API][s]
    BY <1>10 DEF Lookup
  <2>2. o.status # "failed"
    <3>1. CASE Flagged(s)
      BY <1>1, <1>2, <1>10, <2>1, <3>1 DEF Open
    <3>2. CASE ~ Flagged(s)
      <4>1. db[s].col \in {"cancelled", "timed_out"}
        BY <1>2, <1>3, <1>8, <1>9, <3>2 DEF RowAgrees, Flagged, HasRow
      <4> QED
        BY <1>1, <1>10, <2>1, <4>1 DEF Stuck, Expirable
    <3> QED
      BY <3>1, <3>2
  <2>3. o.status = db[s].data.status
    BY <1>1, <1>2, <1>10, <2>1, <2>2 DEF Orderly, CacheFollowsRow
  <2> QED
    BY <1>1, <1>6, <1>8, <1>9, <1>10, <2>3 DEF ScanReports, NotScanned, LateWhenCached
<1>11. CASE ~ Cached(API, s)
  <2>1. db[s].col # "pending"
    BY <1>1, <1>2, <1>3, <1>11 DEF Orderly, ActiveIsCached, LoadedStates
  <2>2. db[s].data.status = db[s].col
    BY <1>2, <1>3, <2>1 DEF RowAgrees, HasRow
  <2>3. o.status = db[s].data.status
    BY <1>1, <1>5, <1>11, LookupOfRow
  <2> QED
    BY <1>1, <1>6, <1>9, <1>11, <2>1, <2>2, <2>3 DEF ScanReports, NotScanned, LateWhenStored
<1> QED
  BY <1>10, <1>11

\* In one process without faults no confirmed deposit is overlooked: in every state
\* one of the background threads has a way to take an unanswered swap further, the
\* failed copy excepted that blocks the scan.
THEOREM OneProcessOverlooksNothing ==
    ASSUME OneProcess
    PROVE  Spec => []DepositHasAWayOn
<1>1. Init => MarkInv /\ OpenInv /\ UnmarkedInv
  BY OneProc, OthersAreApart DEF Init, MarkInv, Marked, OpenInv, Open, Flagged, UnmarkedInv, Unmarked,
     HasRow, Cached
<1>2. Kept /\ MarkInv /\ OpenInv /\ UnmarkedInv /\ [Next]_vars
         => MarkInv' /\ OpenInv' /\ UnmarkedInv'
  BY MarkStep, OpenStep, UnmarkedStep DEF Kept, PayoutInv
<1>3. Spec => []Kept
  BY OneProcessInvariant DEF Kept
<1>4. Kept /\ MarkInv /\ OpenInv /\ UnmarkedInv => DepositHasAWayOn
  BY OpenHasAWayOn
<1> QED
  BY <1>1, <1>2, <1>3, <1>4, PTL DEF Spec
=============================================================================
