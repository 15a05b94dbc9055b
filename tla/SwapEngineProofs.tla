--------------------------- MODULE SwapEngineProofs ---------------------------
(***************************************************************************)
(* Theorems about SwapEngine for every value of its constants: that its    *)
(* variables keep their types, and what holds of payouts in every          *)
(* deployment and under every fault.  The contracts say what each          *)
(* operation does to the one swap it is about; the proofs of the other     *)
(* theorems rest on them and not on the operations.                        *)
(***************************************************************************)
EXTENDS SwapEngine, TLAPS

(* The store's operators keep rows well formed. *)

LEMMA GetSwapType ==
    ASSUME NEW r \in Row \cup {None}
    PROVE  /\ GetSwap(r) \in Swap \cup {None}
           /\ GetSwap(r) = None <=> r = None
BY NoneIsNoRecord DEF GetSwap, AdminColumn, AdminMarks, Row, Swap

LEMMA MergeType ==
    ASSUME NEW old \in Swap, NEW o \in Swap
    PROVE  Merge(old, o) \in Swap /\ Merge(old, o).status = o.status
BY DEF Merge, Swap, AdminMarks

LEMMA UpdateSwapType ==
    ASSUME NEW r \in Row \cup {None}, NEW o \in Swap
    PROVE  UpdateSwap(r, o) \in Row \cup {None}
<1>1. CASE r = None
  BY <1>1 DEF UpdateSwap
<1>2. CASE r # None
  <2>1. GetSwap(r) \in Swap
    BY <1>2, GetSwapType
  <2>2. Merge(GetSwap(r), o) \in Swap
    BY <2>1, MergeType
  <2>3. o.status \in SwapStatuses
    BY DEF Swap
  <2> QED
    BY <1>2, <2>2, <2>3 DEF UpdateSwap, Row
<1> QED
  BY <1>1, <1>2

LEMMA CompleteSwapType ==
    ASSUME NEW r \in Row \cup {None}
    PROVE  CompleteSwap(r) \in Row \cup {None}
<1>1. CASE r = None
  BY <1>1 DEF CompleteSwap
<1>2. CASE r # None
  <2>1. GetSwap(r) \in Swap
    BY <1>2, GetSwapType
  <2>2. [GetSwap(r) EXCEPT !.status = "completed"] \in Swap
    BY <2>1 DEF Swap, SwapStatuses
  <2> QED
    BY <1>2, <2>2 DEF CompleteSwap, Row, SwapStatuses
<1> QED
  BY <1>1, <1>2

LEMMA UpdateStatusType ==
    ASSUME NEW r \in Row \cup {None}, NEW st \in SwapStatuses
    PROVE  UpdateStatus(r, st) \in Row \cup {None}
<1>1. CASE r = None
  BY <1>1 DEF UpdateStatus
<1>2. CASE r # None
  <2>1. GetSwap(r) \in Swap
    BY <1>2, GetSwapType
  <2>2. [GetSwap(r) EXCEPT !.status = st] \in Swap
    BY <2>1 DEF Swap
  <2> QED
    BY <1>2, <2>2 DEF UpdateStatus, Row
<1> QED
  BY <1>1, <1>2

-----------------------------------------------------------------------------
(* Writing the table, a cache and the wallet: what changes, what does not. *)

EngineOK ==
    /\ db \in [Swaps -> Row \cup {None}]
    /\ cache \in [Procs -> [Swaps -> Swap \cup {None}]]
    /\ alive \in [Procs -> BOOLEAN]
    /\ sends \in [Swaps -> 0..MaxSends]

\* A step of process p on swap s leaves alone every other swap, and what other
\* processes have of s.
Frame(p, s) ==
    /\ \A t \in Swaps \ {s} :
          /\ db'[t] = db[t]
          /\ sends'[t] = sends[t]
          /\ \A q \in Procs : cache'[q][t] = cache[q][t]
    /\ \A q \in Procs \ {p} : cache'[q][s] = cache[q][s]

LEMMA LookupType ==
    ASSUME EngineOK, NEW p \in Procs, NEW s \in Swaps
    PROVE  Lookup(p, s) \in Swap \cup {None}
<1>1. db[s] \in Row \cup {None} /\ cache[p][s] \in Swap \cup {None}
  BY DEF EngineOK
<1> QED
  BY <1>1, GetSwapType DEF Lookup, Cached

\* Without a cached copy, a lookup finds the status of the row.
LEMMA LookupOfRow ==
    ASSUME EngineOK, NEW p \in Procs, NEW s \in Swaps,
           ~ Cached(p, s), Lookup(p, s) # None
    PROVE  db[s] # None /\ Lookup(p, s).status = db[s].data.status
<1>1. Lookup(p, s) = GetSwap(db[s])
  BY DEF Lookup
<1>2. db[s] # None /\ db[s] \in Row
  BY <1>1, GetSwapType DEF EngineOK
<1> QED
  BY <1>1, <1>2 DEF GetSwap, Row, Swap

LEMMA PersistType ==
    ASSUME EngineOK, NEW s \in Swaps, NEW r \in Row \cup {None}, Persist(s, r)
    PROVE  /\ db' \in [Swaps -> Row \cup {None}]
           /\ \A t \in Swaps \ {s} : db'[t] = db[t]
           /\ db'[s] = r \/ ("store_fault" \in Faults /\ db'[s] = db[s])
BY DEF EngineOK, Persist

LEMMA SetCacheType ==
    ASSUME EngineOK, NEW p \in Procs, NEW s \in Swaps,
           NEW o \in Swap \cup {None}, SetCache(p, s, o)
    PROVE  /\ cache' \in [Procs -> [Swaps -> Swap \cup {None}]]
           /\ \A t \in Swaps \ {s} : \A q \in Procs : cache'[q][t] = cache[q][t]
           /\ \A q \in Procs \ {p} : cache'[q][s] = cache[q][s]
           /\ cache'[p][s] = o
BY DEF EngineOK, SetCache

LEMMA PayType ==
    ASSUME EngineOK, NEW s \in Swaps, Pay(s)
    PROVE  /\ sends' \in [Swaps -> 0..MaxSends]
           /\ \A t \in Swaps \ {s} : sends'[t] = sends[t]
           /\ sends'[s] = sends[s] + 1
<1>1. MaxSends \in Nat /\ sends[s] \in 0..MaxSends
  BY MaxSendsIsNat DEF EngineOK
<1>2. sends[s] + 1 \in 0..MaxSends
  BY <1>1 DEF Pay
<1> QED
  BY <1>1, <1>2 DEF EngineOK, Pay

LEMMA WithoutType ==
    ASSUME EngineOK, NEW p \in Procs
    PROVE  Without(p) \in [Procs -> BOOLEAN]
BY DEF EngineOK, Without

-----------------------------------------------------------------------------
(* What a settlement and a confirmation do to the one swap they work on.   *)

Stored(s, r) == db'[s] = r \/ ("store_fault" \in Faults /\ db'[s] = db[s])

\* A settlement pays and completes the row; or delays the swap in the cache and
\* in the row; or marks the cached copy failed, perhaps after it paid; or dies
\* having paid; or fails to price a late deposit.
SettleOutcome(p, s, o) ==
    \/ /\ sends'[s] = sends[s] + 1
       /\ cache'[p][s] = None
       /\ Stored(s, CompleteSwap(db[s]))
    \/ /\ sends'[s] = sends[s]
       /\ cache'[p][s] \in Swap /\ cache'[p][s].status = "delayed"
       /\ Stored(s, UpdateSwap(db[s], cache'[p][s]))
    \/ /\ sends'[s] = sends[s] \/ ("lost_answer" \in Faults /\ sends'[s] = sends[s] + 1)
       /\ cache'[p][s] \in Swap /\ cache'[p][s].status = "failed"
       /\ db'[s] = db[s]
    \/ /\ "died" \in Faults
       /\ sends'[s] = sends[s] + 1
       /\ cache'[p][s] = cache[p][s]
       /\ db'[s] = db[s]
    \/ /\ sends'[s] = sends[s]
       /\ cache'[p][s] \in Swap
       /\ cache'[p][s].status = o.status /\ o.status = "late_deposit"
       /\ db'[s] = db[s]

ClearedStep(s) == cleared' = cleared \/ cleared' = cleared \cup {s}

\* A confirmation changes nothing; or records a late deposit; or waits for
\* confirmations; or settles an unconfirmed swap, cleared by its transaction.
ConfirmOutcome(p, s) ==
    \/ sends'[s] = sends[s] /\ cache'[p][s] = cache[p][s] /\ db'[s] = db[s]
    \/ /\ Cached(p, s) \/ (db[s] # None /\ db[s].data.status \in LateWhenStored)
       /\ sends'[s] = sends[s]
       /\ cache'[p][s] = None
       /\ \E d \in Swap : d.status = "late_deposit" /\ Stored(s, UpdateSwap(db[s], d))
    \/ /\ sends'[s] = sends[s]
       /\ Cached(p, s) /\ cache[p][s].status \in Unconfirmed
       /\ cache'[p][s] \in Swap /\ cache'[p][s].status = "awaiting_deposit"
       /\ Stored(s, UpdateSwap(db[s], cache'[p][s]))
    \/ /\ Cached(p, s) /\ cache[p][s].status \in Unconfirmed
       /\ cleared' = cleared \cup {s}
       /\ \E o \in Swap : o.status = "processing" /\ SettleOutcome(p, s, o)

LEMMA PricedType ==
    ASSUME NEW o \in Swap, NEW q \in Priced(o)
    PROVE  q \in Swap /\ q.status = o.status
BY DEF Priced, Swap

LEMMA StatusType ==
    ASSUME NEW o \in Swap, NEW st \in SwapStatuses
    PROVE  /\ [o EXCEPT !.status = st] \in Swap
           /\ [o EXCEPT !.status = st].status = st
BY DEF Swap

LEMMA PaidContract ==
    ASSUME EngineOK, NEW p \in Procs, NEW s \in Swaps, NEW o \in Swap, Paid(p, s)
    PROVE  EngineOK' /\ Frame(p, s) /\ SettleOutcome(p, s, o)
<1>1. Pay(s) /\ SetCache(p, s, None) /\ Persist(s, CompleteSwap(db[s])) /\ alive' = alive
  BY DEF Paid
<1>2. CompleteSwap(db[s]) \in Row \cup {None}
  BY CompleteSwapType DEF EngineOK
<1>3. EngineOK'
  BY <1>1, <1>2, PayType, SetCacheType, PersistType DEF EngineOK
<1>4. Frame(p, s)
  BY <1>1, <1>2, PayType, SetCacheType, PersistType DEF Frame
<1>5. SettleOutcome(p, s, o)
  BY <1>1, <1>2, PayType, SetCacheType, PersistType DEF SettleOutcome, Stored
<1> QED
  BY <1>3, <1>4, <1>5

LEMMA DelayContract ==
    ASSUME EngineOK, NEW p \in Procs, NEW s \in Swaps, NEW o \in Swap, Delay(p, s, o)
    PROVE  EngineOK' /\ Frame(p, s) /\ SettleOutcome(p, s, o)
<1> DEFINE d == [o EXCEPT !.status = "delayed"]
<1>1. d \in Swap /\ d.status = "delayed"
  BY StatusType DEF SwapStatuses
<1> HIDE DEF d
<1>2. SetCache(p, s, d) /\ Persist(s, UpdateSwap(db[s], d)) /\ sends' = sends /\ alive' = alive
  BY DEF Delay, d
<1>3. UpdateSwap(db[s], d) \in Row \cup {None}
  BY <1>1, UpdateSwapType DEF EngineOK
<1>4. EngineOK'
  BY <1>1, <1>2, <1>3, SetCacheType, PersistType DEF EngineOK
<1>5. Frame(p, s)
  BY <1>1, <1>2, <1>3, SetCacheType, PersistType DEF Frame
<1>6. SettleOutcome(p, s, o)
  BY <1>1, <1>2, <1>3, SetCacheType, PersistType DEF SettleOutcome, Stored
<1> QED
  BY <1>4, <1>5, <1>6

LEMMA FailContract ==
    ASSUME EngineOK, NEW p \in Procs, NEW s \in Swaps, NEW o \in Swap, Fail(p, s, o),
           sends' = sends \/ ("lost_answer" \in Faults /\ Pay(s))
    PROVE  EngineOK' /\ Frame(p, s) /\ SettleOutcome(p, s, o)
<1> DEFINE d == [o EXCEPT !.status = "failed"]
<1>1. d \in Swap /\ d.status = "failed"
  BY StatusType DEF SwapStatuses
<1> HIDE DEF d
<1>2. SetCache(p, s, d) /\ db' = db /\ alive' = alive
  BY DEF Fail, d
<1>3. EngineOK'
  BY <1>1, <1>2, SetCacheType, PayType DEF EngineOK
<1>4. Frame(p, s)
  BY <1>1, <1>2, SetCacheType, PayType DEF Frame
<1>5. SettleOutcome(p, s, o)
  BY <1>1, <1>2, SetCacheType, PayType DEF SettleOutcome
<1> QED
  BY <1>3, <1>4, <1>5

LEMMA DieContract ==
    ASSUME EngineOK, NEW p \in Procs, NEW s \in Swaps, NEW o \in Swap, Die(p, s)
    PROVE  EngineOK' /\ Frame(p, s) /\ SettleOutcome(p, s, o)
<1>1. Pay(s) /\ "died" \in Faults /\ db' = db /\ cache' = cache /\ alive' = Without(p)
  BY DEF Die
<1>2. EngineOK'
  BY <1>1, PayType, WithoutType DEF EngineOK
<1>3. Frame(p, s)
  BY <1>1, PayType DEF Frame
<1>4. SettleOutcome(p, s, o)
  BY <1>1, PayType DEF SettleOutcome
<1> QED
  BY <1>2, <1>3, <1>4

LEMMA RepriceContract ==
    ASSUME EngineOK, NEW p \in Procs, NEW s \in Swaps, NEW o \in Swap, RepriceFails(p, s, o)
    PROVE  EngineOK' /\ Frame(p, s) /\ SettleOutcome(p, s, o)
<1>1. o.status = "late_deposit" /\ SetCache(p, s, o) /\ db' = db /\ alive' = alive /\ sends' = sends
  BY DEF RepriceFails
<1>2. EngineOK'
  BY <1>1, SetCacheType DEF EngineOK
<1>3. Frame(p, s)
  BY <1>1, SetCacheType DEF Frame
<1>4. SettleOutcome(p, s, o)
  BY <1>1, SetCacheType DEF SettleOutcome
<1> QED
  BY <1>2, <1>3, <1>4

\* _settle_swap ends in one of its outcomes, whatever swap it is given.
LEMMA SettleContract ==
    ASSUME EngineOK, NEW p \in Procs, NEW s \in Swaps, NEW o \in Swap,
           SettleReturns(p, s, o) \/ SettleRaises(p, s, o) \/ RepriceFails(p, s, o)
    PROVE  EngineOK' /\ Frame(p, s) /\ SettleOutcome(p, s, o)
<1>1. CASE SettleReturns(p, s, o)
  <2>1. PICK q \in Priced(o) : Paid(p, s) \/ Delay(p, s, q) \/ Die(p, s)
    BY <1>1 DEF SettleReturns
  <2>2. q \in Swap /\ q.status = o.status
    BY PricedType
  <2>3. CASE Delay(p, s, q)
    BY <2>2, <2>3, DelayContract DEF SettleOutcome
  <2> QED
    BY <2>1, <2>3, PaidContract, DieContract
<1>2. CASE SettleRaises(p, s, o)
  <2>1. PICK q \in Priced(o) : LoseAnswer(p, s, q) \/ (Fail(p, s, q) /\ UNCHANGED sends)
    BY <1>2 DEF SettleRaises
  <2>2. q \in Swap /\ q.status = o.status
    BY PricedType
  <2>3. EngineOK' /\ Frame(p, s) /\ SettleOutcome(p, s, q)
    BY <2>1, <2>2, FailContract DEF LoseAnswer
  <2>4. SettleOutcome(p, s, o)
    BY <2>1, <2>2, <2>3 DEF SettleOutcome
  <2> QED
    BY <2>3, <2>4
<1> QED
  BY <1>1, <1>2, RepriceContract

\* A step that puts c into a cache and writes r to the table.
LEMMA WriteContract ==
    ASSUME EngineOK, NEW p \in Procs, NEW s \in Swaps,
           NEW c \in Swap \cup {None}, NEW r \in Row \cup {None},
           SetCache(p, s, c), Persist(s, r), alive' = alive, sends' = sends
    PROVE  /\ EngineOK' /\ Frame(p, s)
           /\ sends'[s] = sends[s] /\ cache'[p][s] = c /\ Stored(s, r)
<1>1. EngineOK'
  BY SetCacheType, PersistType DEF EngineOK
<1>2. Frame(p, s)
  BY SetCacheType, PersistType DEF Frame
<1>3. sends'[s] = sends[s] /\ cache'[p][s] = c /\ Stored(s, r)
  BY SetCacheType, PersistType DEF Stored
<1> QED
  BY <1>1, <1>2, <1>3

LEMMA UnchangedContract ==
    ASSUME EngineOK, NEW p \in Procs, NEW s \in Swaps, UNCHANGED engineVars
    PROVE  EngineOK' /\ Frame(p, s) /\ ConfirmOutcome(p, s)
<1>1. EngineOK'
  BY DEF EngineOK, engineVars
<1>2. Frame(p, s)
  BY DEF Frame, engineVars
<1>3. ConfirmOutcome(p, s)
  BY DEF ConfirmOutcome, engineVars
<1> QED
  BY <1>1, <1>2, <1>3

LEMMA LateDepositContract ==
    ASSUME EngineOK, NEW p \in Procs, NEW s \in Swaps,
           NEW o \in Swap, o = Lookup(p, s), LateDeposit(p, s, o)
    PROVE  EngineOK' /\ Frame(p, s) /\ ConfirmOutcome(p, s)
<1> DEFINE d == [o EXCEPT !.status = "late_deposit"]
<1>1. d \in Swap /\ d.status = "late_deposit"
  BY StatusType DEF SwapStatuses
<1> HIDE DEF d
<1>2. /\ SetCache(p, s, None) /\ Persist(s, UpdateSwap(db[s], d))
      /\ alive' = alive /\ sends' = sends
  BY DEF LateDeposit, d
<1>3. UpdateSwap(db[s], d) \in Row \cup {None}
  BY <1>1, UpdateSwapType DEF EngineOK
<1>4. /\ EngineOK' /\ Frame(p, s)
      /\ sends'[s] = sends[s] /\ cache'[p][s] = None
      /\ Stored(s, UpdateSwap(db[s], d))
  BY <1>2, <1>3, WriteContract
<1>5. Cached(p, s) \/ (db[s] # None /\ db[s].data.status \in LateWhenStored)
  <2>1. CASE ~ Cached(p, s)
    <3>1. o # None /\ o.status \in LateWhenStored
      BY <2>1, NoneIsNoRecord DEF LateDeposit
    <3> QED
      BY <2>1, <3>1, LookupOfRow
  <2> QED
    BY <2>1
<1> QED
  BY <1>1, <1>4, <1>5 DEF ConfirmOutcome

LEMMA AwaitContract ==
    ASSUME EngineOK, NEW p \in Procs, NEW s \in Swaps,
           NEW o \in Swap, o = Lookup(p, s), AwaitConfirmations(p, s, o)
    PROVE  EngineOK' /\ Frame(p, s) /\ ConfirmOutcome(p, s)
<1> DEFINE d == [o EXCEPT !.status = "awaiting_deposit"]
<1>1. d \in Swap /\ d.status = "awaiting_deposit"
  BY StatusType DEF SwapStatuses
<1> HIDE DEF d
<1>2. /\ Cached(p, s) /\ o.status \in Unconfirmed
      /\ SetCache(p, s, d) /\ Persist(s, UpdateSwap(db[s], d))
      /\ alive' = alive /\ sends' = sends
  BY DEF AwaitConfirmations, d
<1>3. UpdateSwap(db[s], d) \in Row \cup {None}
  BY <1>1, UpdateSwapType DEF EngineOK
<1>4. /\ EngineOK' /\ Frame(p, s)
      /\ sends'[s] = sends[s] /\ cache'[p][s] = d
      /\ Stored(s, UpdateSwap(db[s], d))
  BY <1>1, <1>2, <1>3, WriteContract
<1>5. cache[p][s].status \in Unconfirmed
  BY <1>2 DEF Lookup
<1> QED
  BY <1>1, <1>2, <1>4, <1>5 DEF ConfirmOutcome

LEMMA ConfirmSettleContract ==
    ASSUME EngineOK, NEW p \in Procs, NEW s \in Swaps,
           NEW o \in Swap, o = Lookup(p, s),
           NEW t \in Transactions, Confirmable(p, s, o, t),
           \/ SettleReturns(p, s, InProcessing(o))
           \/ SettleRaises(p, s, InProcessing(o))
    PROVE  EngineOK' /\ Frame(p, s) /\ ConfirmOutcome(p, s) /\ ClearedStep(s)
<1>1. InProcessing(o) \in Swap /\ InProcessing(o).status = "processing"
  BY StatusType DEF InProcessing, SwapStatuses
<1>2. EngineOK' /\ Frame(p, s) /\ SettleOutcome(p, s, InProcessing(o))
  BY <1>1, SettleContract
<1>3. Cached(p, s) /\ cache[p][s].status \in Unconfirmed
  BY DEF Confirmable, Lookup
<1>4. cleared' = cleared \cup {s}
  BY DEF Confirmable, EnoughConfirmations, Record
<1> QED
  BY <1>1, <1>2, <1>3, <1>4 DEF ConfirmOutcome, ClearedStep

\* confirm_deposit ends in one of its outcomes, whether it returns or raises.
LEMMA ConfirmContract ==
    ASSUME EngineOK, NEW p \in Procs, NEW s \in Swaps,
           NEW t \in Transactions, ConfirmReturns(p, s, t) \/ ConfirmRaises(p, s, t)
    PROVE  EngineOK' /\ Frame(p, s) /\ ConfirmOutcome(p, s) /\ ClearedStep(s)
<1> DEFINE o == Lookup(p, s)
<1>1. o \in Swap \cup {None}
  BY LookupType
<1>2. \/ UNCHANGED <<engineVars, cleared>>
      \/ /\ o # None
         /\ \/ LateDeposit(p, s, o) /\ cleared' = cleared
            \/ AwaitConfirmations(p, s, o) /\ cleared' = cleared
            \/ /\ Confirmable(p, s, o, t)
               /\ \/ SettleReturns(p, s, InProcessing(o))
                  \/ SettleRaises(p, s, InProcessing(o))
  BY DEF ConfirmReturns, ConfirmRaises
<1> QED
  BY <1>1, <1>2, UnchangedContract, LateDepositContract, AwaitContract,
     ConfirmSettleContract DEF ClearedStep

-----------------------------------------------------------------------------
(* Type correctness, one lemma per action. *)

LoopsOK ==
    /\ confirmed \subseteq Transactions
    /\ sweep \in [Sweepers -> SUBSET Swaps]
    /\ scan \subseteq Swaps
    /\ touched \subseteq Swaps
    /\ cleared \subseteq Swaps

LEMMA TypeSplit == TypeOK <=> EngineOK /\ LoopsOK
BY DEF TypeOK, EngineOK, LoopsOK

LEMMA ProcsType ==
    /\ API \in Procs /\ BG \in Procs
    /\ \A w \in Sweepers : ProcOf(w) \in Procs
BY DEF Procs, ProcOf

LEMMA InitType == Init => TypeOK
BY MaxSendsIsNat DEF Init, TypeOK, Transactions

\* CreateSwap, CancelSwap, SetSwapStatus, ClearAdminOverride and the "cancel" of
\* ReleaseCircuitBreaker each put one object into the API's cache and write one row.

LEMMA CreateContract ==
    ASSUME EngineOK, NEW s \in Swaps, NEW n \in Amounts,
           NEW st \in {"pending", "circuit_breaker"}, CreateSwap(s, n, st)
    PROVE  /\ EngineOK' /\ Frame(API, s)
           /\ sends'[s] = sends[s]
           /\ cache'[API][s] = [status |-> st, admin |-> "absent", net |-> n]
           /\ Stored(s, AddSwap([status |-> st, admin |-> "absent", net |-> n]))
<1> DEFINE o == [status |-> st, admin |-> "absent", net |-> n]
<1>1. o \in Swap
  BY DEF Swap, SwapStatuses, AdminMarks
<1>2. AddSwap(o) \in Row
  BY <1>1 DEF AddSwap, Row, SwapStatuses
<1> HIDE DEF o
<1>3. SetCache(API, s, o) /\ Persist(s, AddSwap(o)) /\ alive' = alive /\ sends' = sends
  BY DEF CreateSwap, o
<1>4. /\ EngineOK' /\ Frame(API, s)
      /\ sends'[s] = sends[s] /\ cache'[API][s] = o /\ Stored(s, AddSwap(o))
  BY <1>1, <1>2, <1>3, WriteContract, ProcsType
<1> QED
  BY <1>4 DEF o

LEMMA CancelContract ==
    ASSUME EngineOK, NEW s \in Swaps, CancelSwap(s)
    PROVE  /\ EngineOK' /\ Frame(API, s)
           /\ Cached(API, s) \/ (db[s] # None /\ db[s].data.status # "completed")
           /\ sends'[s] = sends[s] /\ cache'[API][s] = None
           /\ \E u \in Swap : u.status = "cancelled" /\ Stored(s, UpdateSwap(db[s], u))
<1> DEFINE u == [Lookup(API, s) EXCEPT !.status = "cancelled"]
<1>1. Lookup(API, s) \in Swap
  BY LookupType, ProcsType DEF CancelSwap
<1>2. u \in Swap /\ u.status = "cancelled"
  BY <1>1, StatusType DEF SwapStatuses
<1>3. /\ SetCache(API, s, None) /\ Persist(s, UpdateSwap(db[s], u))
      /\ alive' = alive /\ sends' = sends
  BY DEF CancelSwap
<1> HIDE DEF u
<1>4. UpdateSwap(db[s], u) \in Row \cup {None}
  BY <1>2, UpdateSwapType DEF EngineOK
<1>5. /\ EngineOK' /\ Frame(API, s)
      /\ sends'[s] = sends[s] /\ cache'[API][s] = None
      /\ Stored(s, UpdateSwap(db[s], u))
  BY <1>2, <1>3, <1>4, WriteContract, ProcsType
<1>6. Cached(API, s) \/ (db[s] # None /\ db[s].data.status # "completed")
  BY <1>1, LookupOfRow, ProcsType DEF CancelSwap
<1> QED
  BY <1>2, <1>5, <1>6

LEMMA SetStatusContract ==
    ASSUME EngineOK, NEW s \in Swaps, NEW t \in AdminTargets, SetSwapStatus(s, t)
    PROVE  /\ EngineOK' /\ Frame(API, s)
           /\ sends'[s] = sends[s]
           /\ \E u \in Swap : Stored(s, UpdateSwap(db[s], u))
<1> DEFINE o == Lookup(API, s)
           u == [o EXCEPT !.status = t, !.admin = t]
           c == IF Cached(API, s) /\ t \notin DroppedOnSet THEN u ELSE None
<1>1. o \in Swap
  BY LookupType, ProcsType DEF SetSwapStatus
<1>2. u \in Swap
  BY <1>1, AdminTargetsKnown DEF Swap, AdminMarks
<1>3. /\ SetCache(API, s, c) /\ Persist(s, UpdateSwap(db[s], u))
      /\ alive' = alive /\ sends' = sends
  BY DEF SetSwapStatus
<1> HIDE DEF u
<1>4. UpdateSwap(db[s], u) \in Row \cup {None}
  BY <1>2, UpdateSwapType DEF EngineOK
<1>5. c \in Swap \cup {None}
  BY <1>2
<1> HIDE DEF c
<1>6. /\ EngineOK' /\ Frame(API, s)
      /\ sends'[s] = sends[s] /\ Stored(s, UpdateSwap(db[s], u))
  BY <1>3, <1>4, <1>5, WriteContract, ProcsType
<1> QED
  BY <1>2, <1>6

LEMMA ClearContract ==
    ASSUME EngineOK, NEW s \in Swaps, ClearAdminOverride(s)
    PROVE  /\ EngineOK' /\ Frame(API, s)
           /\ sends'[s] = sends[s]
           /\ \E u \in Swap : Stored(s, UpdateSwap(db[s], u))
<1> DEFINE o == Lookup(API, s)
           u == [o EXCEPT !.admin = "null"]
           c == IF Cached(API, s) THEN u ELSE None
<1>1. o \in Swap
  BY LookupType, ProcsType DEF ClearAdminOverride
<1>2. u \in Swap
  BY <1>1 DEF Swap, AdminMarks
<1>3. /\ SetCache(API, s, c) /\ Persist(s, UpdateSwap(db[s], u))
      /\ alive' = alive /\ sends' = sends
  BY DEF ClearAdminOverride
<1> HIDE DEF u
<1>4. UpdateSwap(db[s], u) \in Row \cup {None}
  BY <1>2, UpdateSwapType DEF EngineOK
<1>5. c \in Swap \cup {None}
  BY <1>2
<1> HIDE DEF c
<1>6. /\ EngineOK' /\ Frame(API, s)
      /\ sends'[s] = sends[s] /\ Stored(s, UpdateSwap(db[s], u))
  BY <1>3, <1>4, <1>5, WriteContract, ProcsType
<1> QED
  BY <1>2, <1>6

\* The administrator's settlements: a settlement, or a write.
AdminOutcome(s) ==
    \/ \E o \in Swap : SettleOutcome(API, s, o)
    \/ /\ sends'[s] = sends[s]
       /\ \E u \in Swap : Stored(s, UpdateSwap(db[s], u))

LEMMA ReleaseContract ==
    ASSUME EngineOK, NEW s \in Swaps, ReleaseCircuitBreaker(s)
    PROVE  EngineOK' /\ Frame(API, s) /\ AdminOutcome(s)
<1> DEFINE o == Lookup(API, s)
           u == [o EXCEPT !.status = "cancelled"]
<1>1. o \in Swap
  BY LookupType, ProcsType DEF ReleaseCircuitBreaker
<1>2. u \in Swap
  BY <1>1, StatusType DEF SwapStatuses
<1>3. UpdateSwap(db[s], u) \in Row \cup {None}
  BY <1>2, UpdateSwapType DEF EngineOK
<1>4. CASE SettleReturns(API, s, o) \/ SettleRaises(API, s, o)
  BY <1>1, <1>4, SettleContract, ProcsType DEF AdminOutcome
<1>5. CASE /\ SetCache(API, s, None) /\ Persist(s, UpdateSwap(db[s], u))
           /\ alive' = alive /\ sends' = sends
  <2> HIDE DEF u
  <2> QED
    BY <1>2, <1>3, <1>5, WriteContract, ProcsType DEF AdminOutcome
<1> QED
  BY <1>4, <1>5 DEF ReleaseCircuitBreaker

LEMMA AdminSettleContract ==
    ASSUME EngineOK, NEW s \in Swaps, AdminSettle(s)
    PROVE  EngineOK' /\ Frame(API, s) /\ AdminOutcome(s)
<1> DEFINE o == Lookup(API, s)
<1>1. o \in Swap
  BY LookupType, ProcsType DEF AdminSettle
<1>2. SettleReturns(API, s, o) \/ SettleRaises(API, s, o) \/ RepriceFails(API, s, o)
  BY DEF AdminSettle
<1> QED
  BY <1>1, <1>2, SettleContract, ProcsType DEF AdminOutcome

\* A settlement by hand pays first; the row is completed, or left as it was.
LEMMA OrphanContract ==
    ASSUME EngineOK, NEW s \in Swaps, SettleOrphaned(s)
    PROVE  /\ EngineOK' /\ Frame(API, s)
           /\ sends'[s] = sends[s] + 1
           /\ db'[s] = UpdateStatus(db[s], "completed") \/ db'[s] = db[s]
<1>1. UpdateStatus(db[s], "completed") \in Row \cup {None}
  BY UpdateStatusType DEF EngineOK, SwapStatuses
<1>2. /\ Pay(s) /\ cache' = cache
      /\ alive' = alive \/ alive' = Without(API)
      /\ Persist(s, UpdateStatus(db[s], "completed")) \/ db' = db
  BY DEF SettleOrphaned, Die
<1>3. EngineOK'
  BY <1>1, <1>2, PayType, PersistType, WithoutType, ProcsType DEF EngineOK
<1>4. Frame(API, s)
  BY <1>1, <1>2, PayType, PersistType DEF Frame
<1>5. db'[s] = UpdateStatus(db[s], "completed") \/ db'[s] = db[s]
  BY <1>1, <1>2, PersistType
<1> QED
  BY <1>2, <1>3, <1>4, <1>5, PayType

LEMMA SweepContract ==
    ASSUME TypeOK, NEW w \in Sweepers, NEW s \in Swaps, SweepOne(w, s)
    PROVE  /\ EngineOK' /\ Frame(ProcOf(w), s)
           /\ s \in sweep[w]
           /\ \/ Lookup(ProcOf(w), s) = None /\ UNCHANGED engineVars
              \/ /\ Lookup(ProcOf(w), s) \in Swap
                 /\ SettleOutcome(ProcOf(w), s, Lookup(ProcOf(w), s))
           /\ sweep' \in [Sweepers -> SUBSET Swaps]
           /\ \A v \in Sweepers : sweep'[v] \subseteq sweep[v]
           /\ s \notin sweep'[w]
<1> DEFINE p == ProcOf(w)
           o == Lookup(p, s)
<1>1. EngineOK /\ p \in Procs
  BY TypeSplit, ProcsType
<1>2. o \in Swap \cup {None}
  BY <1>1, LookupType
<1>3. s \in sweep[w] /\ (sweep' = [sweep EXCEPT ![w] = @ \ {s}]
                          \/ sweep' = [sweep EXCEPT ![w] = {}])
  BY DEF SweepOne
<1>4. /\ sweep' \in [Sweepers -> SUBSET Swaps]
      /\ \A v \in Sweepers : sweep'[v] \subseteq sweep[v]
      /\ s \notin sweep'[w]
  BY <1>3 DEF TypeOK
<1>5. \/ o = None /\ UNCHANGED engineVars
      \/ /\ o # None
         /\ SettleReturns(p, s, o) \/ SettleRaises(p, s, o) \/ RepriceFails(p, s, o)
  BY DEF SweepOne
<1> HIDE DEF p, o
<1>6. /\ EngineOK' /\ Frame(p, s)
      /\ \/ o = None /\ UNCHANGED engineVars
         \/ o \in Swap /\ SettleOutcome(p, s, o)
  BY <1>1, <1>2, <1>5, SettleContract, UnchangedContract
<1> QED
  BY <1>3, <1>4, <1>6 DEF p, o

LEMMA ExpireContract ==
    ASSUME EngineOK, NEW old \in SUBSET Swaps, ExpireSwaps(old)
    PROVE  /\ EngineOK'
           /\ \A t \in Swaps :
                /\ sends'[t] = sends[t]
                /\ \A q \in Procs : cache'[q][t] \in {cache[q][t], None}
                /\ \/ db'[t] = db[t] /\ \A q \in Procs : cache'[q][t] = cache[q][t]
                   \/ /\ db[t] # None /\ db[t].col \in Expirable
                      /\ cache'[BG][t] = None
                      /\ \/ "store_fault" \in Faults /\ db'[t] = db[t]
                         \/ /\ db'[t] \in Row
                            /\ db'[t].col = "timed_out"
                            /\ db'[t].data.status = "timed_out"
<1> DEFINE due == {s \in old : /\ db[s] # None
                               /\ db[s].col \in Expirable
                               /\ db[s].data.status \in Expirable}
           aged == [s \in Swaps |->
                      IF s \in due
                      THEN [col |-> "timed_out",
                            data |-> [db[s].data EXCEPT !.status = "timed_out"]]
                      ELSE db[s]]
<1>1. /\ db' = aged \/ ("store_fault" \in Faults /\ db' = db)
      /\ cache' = [cache EXCEPT ![BG] = [s \in Swaps |-> IF s \in due THEN None ELSE @[s]]]
      /\ alive' = alive /\ sends' = sends
  BY DEF ExpireSwaps
<1>2. ASSUME NEW t \in Swaps
      PROVE  \/ t \notin due /\ aged[t] = db[t]
             \/ /\ t \in due /\ aged[t] \in Row
                /\ aged[t].col = "timed_out" /\ aged[t].data.status = "timed_out"
  <2>1. CASE t \in due
    <3>1. db[t] # None /\ db[t] \in Row
      BY <2>1 DEF EngineOK
    <3>2. db[t].data \in Swap
      BY <3>1 DEF Row
    <3> DEFINE d == [db[t].data EXCEPT !.status = "timed_out"]
    <3>3. d \in Swap /\ d.status = "timed_out"
      BY <3>2, StatusType DEF SwapStatuses
    <3>4. aged[t] = [col |-> "timed_out", data |-> d]
      BY <2>1
    <3> HIDE DEF d, aged, due
    <3>5. aged[t].col = "timed_out" /\ aged[t].data = d
      BY <3>4
    <3>6. aged[t] \in Row
      BY <3>3, <3>4 DEF Row, SwapStatuses
    <3> QED
      BY <2>1, <3>3, <3>5, <3>6
  <2>2. CASE t \notin due
    BY <2>2
  <2> QED
    BY <2>1, <2>2
<1>3. aged \in [Swaps -> Row \cup {None}]
  <2>1. \A t \in Swaps : aged[t] \in Row \cup {None}
    BY <1>2 DEF EngineOK
  <2> QED
    BY <2>1
<1>4. /\ cache' \in [Procs -> [Swaps -> Swap \cup {None}]]
      /\ \A t \in Swaps :
            /\ t \in due => cache'[BG][t] = None
            /\ \A q \in Procs :
                  cache'[q][t] = IF q = BG /\ t \in due THEN None ELSE cache[q][t]
  BY <1>1, ProcsType DEF EngineOK
<1>5. \A t \in due : db[t] # None /\ db[t].col \in Expirable
  OBVIOUS
<1> HIDE DEF aged, due
<1>6. EngineOK'
  BY <1>1, <1>3, <1>4 DEF EngineOK
<1> QED
  BY <1>1, <1>2, <1>4, <1>5, <1>6

LEMMA StartContract ==
    ASSUME EngineOK, Start
    PROVE  /\ EngineOK'
           /\ db' = db /\ sends' = sends
           /\ \A q \in Procs : \A t \in Swaps : cache'[q][t] = PendingSwap(db[t])
<1>1. \A t \in Swaps : PendingSwap(db[t]) \in Swap \cup {None}
  BY DEF EngineOK, PendingSwap, Row
<1>2. /\ cache' = [p \in Procs |-> [s \in Swaps |-> PendingSwap(db[s])]]
      /\ alive' = [p \in Procs |-> TRUE] /\ db' = db /\ sends' = sends
  BY DEF Start
<1>3. cache' \in [Procs -> [Swaps -> Swap \cup {None}]]
  BY <1>1, <1>2
<1>4. \A q \in Procs : \A t \in Swaps : cache'[q][t] = PendingSwap(db[t])
  BY <1>2
<1>5. alive' \in [Procs -> BOOLEAN]
  BY <1>2
<1> QED
  BY <1>2, <1>3, <1>4, <1>5 DEF EngineOK

LEMMA RespawnContract ==
    ASSUME EngineOK, Respawn
    PROVE  /\ EngineOK'
           /\ db' = db /\ sends' = sends
           /\ \A q \in Procs : \A t \in Swaps : cache'[q][t] \in {cache[q][t], cache[BG][t]}
<1>1. /\ cache' = [cache EXCEPT ![API] = cache[BG]]
      /\ alive' = [alive EXCEPT ![API] = TRUE] /\ db' = db /\ sends' = sends
  BY DEF Respawn
<1> QED
  BY <1>1, ProcsType DEF EngineOK

LEMMA StopContract ==
    ASSUME EngineOK, NEW p \in Procs, Stop(p)
    PROVE  EngineOK' /\ db' = db /\ sends' = sends /\ cache' = cache
BY WithoutType DEF Stop, EngineOK

LEMMA NextType ==
    ASSUME TypeOK, [Next]_vars
    PROVE  TypeOK'
<1> USE TypeSplit
<1> SUFFICES EngineOK' /\ LoopsOK'
  BY DEF TypeOK, EngineOK, LoopsOK
<1>1. ASSUME NEW s \in Swaps, UserStep(s)
      PROVE  EngineOK' /\ LoopsOK'
  <2>1. ASSUME NEW n \in Amounts, NEW st \in {"pending", "circuit_breaker"},
               CreateSwap(s, n, st)
        PROVE  EngineOK' /\ LoopsOK'
    BY <2>1, CreateContract DEF CreateSwap, LoopsOK, loopVars, envVars
  <2>2. CASE Deposit(s)
    BY <2>2 DEF Deposit, EngineOK, LoopsOK, engineVars, loopVars, Transactions
  <2>3. ASSUME NEW t \in Transactions, UserConfirm(s, t)
        PROVE  EngineOK' /\ LoopsOK'
    BY <2>3, ConfirmContract, ProcsType
    DEF UserConfirm, LoopsOK, loopVars, ClearedStep
  <2>4. CASE CancelSwap(s)
    BY <2>4, CancelContract DEF CancelSwap, LoopsOK, loopVars, envVars
  <2> QED
    BY <1>1, <2>1, <2>2, <2>3, <2>4 DEF UserStep
<1>2. ASSUME NEW s \in Swaps, AdminStep(s)
      PROVE  EngineOK' /\ LoopsOK'
  <2>1. ASSUME NEW t \in AdminTargets, SetSwapStatus(s, t)
        PROVE  EngineOK' /\ LoopsOK'
    BY <2>1, SetStatusContract DEF SetSwapStatus, Touch, LoopsOK, loopVars
  <2>2. CASE ClearAdminOverride(s)
    BY <2>2, ClearContract DEF ClearAdminOverride, Touch, LoopsOK, loopVars
  <2>3. CASE ReleaseCircuitBreaker(s)
    BY <2>3, ReleaseContract DEF ReleaseCircuitBreaker, Touch, LoopsOK, loopVars
  <2>4. CASE AdminSettle(s)
    BY <2>4, AdminSettleContract DEF AdminSettle, Touch, LoopsOK, loopVars
  <2>5. CASE SettleOrphaned(s)
    BY <2>5, OrphanContract DEF SettleOrphaned, Touch, LoopsOK, loopVars
  <2> QED
    BY <1>2, <2>1, <2>2, <2>3, <2>4, <2>5 DEF AdminStep
<1>3. CASE BackgroundStep
  <2>1. ASSUME NEW w \in Sweepers, StartSweep(w)
        PROVE  EngineOK' /\ LoopsOK'
    BY <2>1 DEF StartSweep, Delayed, EngineOK, LoopsOK, engineVars, envVars
  <2>2. ASSUME NEW w \in Sweepers, NEW s \in Swaps, SweepOne(w, s)
        PROVE  EngineOK' /\ LoopsOK'
    BY <2>2, SweepContract DEF SweepOne, LoopsOK, envVars
  <2>3. ASSUME NEW old \in SUBSET Swaps, ExpireSwaps(old)
        PROVE  EngineOK' /\ LoopsOK'
    BY <2>3, ExpireContract DEF ExpireSwaps, LoopsOK, loopVars, envVars
  <2>4. ASSUME NEW seen \in SUBSET Swaps, StartScan(seen)
        PROVE  EngineOK' /\ LoopsOK'
    BY <2>4 DEF StartScan, EngineOK, LoopsOK, engineVars, envVars
  <2>5. ASSUME NEW s \in Swaps, ScanOne(s)
        PROVE  EngineOK' /\ LoopsOK'
    <3>1. EngineOK' /\ ClearedStep(s)
      BY <2>5, ConfirmContract, ProcsType DEF ScanOne, Transactions
    <3>2. LoopsOK'
      BY <2>5, <3>1 DEF ScanOne, LoopsOK, ClearedStep
    <3> QED
      BY <3>1, <3>2
  <2> QED
    BY <1>3, <2>1, <2>2, <2>3, <2>4, <2>5 DEF BackgroundStep
<1>4. CASE ProcessStep
  <2>1. ASSUME NEW p \in Procs, Stop(p)
        PROVE  EngineOK' /\ LoopsOK'
    BY <2>1, StopContract DEF Stop, LoopsOK, loopVars, envVars
  <2>2. CASE Start
    BY <2>2, StartContract DEF Start, LoopsOK, envVars
  <2>3. CASE Respawn
    BY <2>3, RespawnContract DEF Respawn, LoopsOK, envVars
  <2> QED
    BY <1>4, <2>1, <2>2, <2>3 DEF ProcessStep
<1>5. CASE UNCHANGED vars
  BY <1>5 DEF EngineOK, LoopsOK, vars, engineVars, loopVars, envVars
<1> QED
  BY <1>1, <1>2, <1>3, <1>4, <1>5 DEF Next

\* Every variable keeps its type in every instance of the engine: any number of
\* swaps, one process or two, any faults.
THEOREM TypeCorrect == Spec => []TypeOK
<1>1. Init => TypeOK
  BY InitType
<1>2. TypeOK /\ [Next]_vars => TypeOK'
  BY NextType
<1> QED
  BY <1>1, <1>2, PTL DEF Spec

-----------------------------------------------------------------------------
(* What the engine guarantees of payouts in every deployment: one process  *)
(* or two, with two sweeps at a time, lost answers, crashes and failed     *)
(* writes.                                                                 *)
(*                                                                         *)
(* The three invariants are about rows and payouts; the caches and the     *)
(* sweeps carry swaps from one step to the next, so the inductive          *)
(* invariant adds what those may hold: a swap that is neither cleared by a *)
(* confirmation nor touched by an administrator is delayed nowhere.        *)

Backed(s) == s \in cleared \cup touched

RowAgrees(s) ==
    db[s] # None =>
        \/ db[s].col = db[s].data.status
        \/ /\ db[s].col = "pending"
           /\ db[s].data = [status |-> "circuit_breaker", admin |-> "absent",
                            net |-> db[s].data.net]

CompletedWasPaid(s) ==
    db[s] # None /\ "completed" \in {db[s].col, db[s].data.status}
        => sends[s] > 0 \/ s \in touched

\* A swap that was not cleared was not paid, and nothing will have it settled.
UnbackedIsIdle(s) ==
    ~ Backed(s) =>
        /\ sends[s] = 0
        /\ \A p \in Procs : ~ DelayedInCache(p, s)
        /\ db[s] # None => "delayed" \notin {db[s].col, db[s].data.status}
        /\ \A w \in Sweepers : s \notin sweep[w]

Safe(s) == RowAgrees(s) /\ CompletedWasPaid(s) /\ UnbackedIsIdle(s)

PayoutInv == TypeOK /\ \A s \in Swaps : Safe(s)

-----------------------------------------------------------------------------
(* The rows the store writes. *)

LEMMA RowAfterUpdate ==
    ASSUME NEW r \in Row \cup {None}, NEW u \in Swap
    PROVE  \/ r = None /\ UpdateSwap(r, u) = None
           \/ /\ r # None /\ UpdateSwap(r, u) # None
              /\ UpdateSwap(r, u).col = u.status
              /\ UpdateSwap(r, u).data.status = u.status
<1>1. CASE r = None
  BY <1>1 DEF UpdateSwap
<1>2. CASE r # None
  <2>1. UpdateSwap(r, u) \in Row
    BY <1>2, UpdateSwapType, GetSwapType, MergeType DEF UpdateSwap, Row, Swap
  <2>2. Merge(GetSwap(r), u).status = u.status
    BY <1>2, GetSwapType, MergeType
  <2> QED
    BY <1>2, <2>1, <2>2, NoneIsNoRecord DEF UpdateSwap
<1> QED
  BY <1>1, <1>2

LEMMA RowAfterStatus ==
    ASSUME NEW r \in Row \cup {None}, NEW st \in SwapStatuses
    PROVE  \/ r = None /\ UpdateStatus(r, st) = None
           \/ /\ r # None /\ UpdateStatus(r, st) # None
              /\ UpdateStatus(r, st).col = st
              /\ UpdateStatus(r, st).data.status = st
<1>1. CASE r = None
  BY <1>1 DEF UpdateStatus
<1>2. CASE r # None
  <2>1. GetSwap(r) \in Swap
    BY <1>2, GetSwapType
  <2> DEFINE d == [GetSwap(r) EXCEPT !.status = st]
  <2>2. d \in Swap /\ d.status = st
    BY <2>1, StatusType
  <2>3. UpdateStatus(r, st) = [col |-> st, data |-> d]
    BY <1>2 DEF UpdateStatus
  <2> HIDE DEF d
  <2>4. UpdateStatus(r, st) \in Row
    BY <2>2, <2>3 DEF Row
  <2> QED
    BY <1>2, <2>2, <2>3, <2>4, NoneIsNoRecord
<1> QED
  BY <1>1, <1>2

LEMMA RowAfterComplete ==
    ASSUME NEW r \in Row \cup {None}
    PROVE  \/ r = None /\ CompleteSwap(r) = None
           \/ /\ r # None /\ CompleteSwap(r) # None
              /\ CompleteSwap(r).col = "completed"
              /\ CompleteSwap(r).data.status = "completed"
<1>1. CompleteSwap(r) = UpdateStatus(r, "completed")
  BY DEF CompleteSwap, UpdateStatus
<1> QED
  BY <1>1, RowAfterStatus DEF SwapStatuses

-----------------------------------------------------------------------------
(* One step, seen from one swap. *)

\* The row stays, or a row is written whose two statuses agree, which reads
\* "completed" only after a payout and "delayed" only once cleared.
RowStep(s) ==
    \/ db'[s] = db[s]
    \/ /\ db'[s] # None
       /\ db'[s].col = db'[s].data.status
       /\ db'[s].col = "completed" => sends'[s] > 0 \/ s \in touched'
       /\ db'[s].col = "delayed" => Backed(s)'

\* Before it is cleared nothing is paid, delayed or added to a sweep.
IdleStep(s) ==
    Backed(s)' \/
        /\ sends'[s] = sends[s]
        /\ \A p \in Procs : DelayedInCache(p, s)' =>
              \/ \E q \in Procs : DelayedInCache(q, s)
              \/ db[s] # None /\ db[s].data.status = "delayed"
        /\ \A w \in Sweepers : s \in sweep'[w] =>
              \/ s \in sweep[w]
              \/ \E q \in Procs : DelayedInCache(q, s)
              \/ db[s] # None /\ db[s].col = "delayed"

LEMMA SafeStep ==
    ASSUME NEW s \in Swaps, Safe(s), sends[s] \in Nat,
           sends'[s] \in {sends[s], sends[s] + 1},
           cleared \subseteq cleared', touched \subseteq touched',
           RowStep(s), IdleStep(s)
    PROVE  Safe(s)'
<1>1. Backed(s) => Backed(s)'
  BY DEF Backed
<1>2. RowAgrees(s)'
  BY DEF RowStep, Safe, RowAgrees
<1>3. CompletedWasPaid(s)'
  BY DEF RowStep, Safe, CompletedWasPaid
<1>4. UnbackedIsIdle(s)'
  BY <1>1 DEF RowStep, IdleStep, Safe, UnbackedIsIdle
<1> QED
  BY <1>2, <1>3, <1>4 DEF Safe

LEMMA RowWritten ==
    ASSUME NEW s \in Swaps, db[s] \in Row \cup {None}, NEW u \in Swap,
           Stored(s, UpdateSwap(db[s], u)),
           s \in touched' \/ u.status \notin {"completed", "delayed"}
             \/ (u.status = "delayed" /\ Backed(s)')
    PROVE  RowStep(s)
BY RowAfterUpdate DEF Stored, RowStep, Backed

LEMMA SettleIsSafe ==
    ASSUME NEW p \in Procs, NEW s \in Swaps, NEW o \in Swap,
           db[s] \in Row \cup {None}, sends[s] \in Nat,
           SettleOutcome(p, s, o), Backed(s)'
    PROVE  /\ sends'[s] \in {sends[s], sends[s] + 1}
           /\ RowStep(s) /\ IdleStep(s)
<1>1. CASE /\ sends'[s] = sends[s] + 1
           /\ Stored(s, CompleteSwap(db[s]))
  BY <1>1, RowAfterComplete DEF Stored, RowStep, IdleStep
<1>2. CASE /\ sends'[s] = sends[s]
           /\ cache'[p][s] \in Swap /\ cache'[p][s].status = "delayed"
           /\ Stored(s, UpdateSwap(db[s], cache'[p][s]))
  BY <1>2, RowWritten DEF IdleStep
<1>3. CASE sends'[s] \in {sends[s], sends[s] + 1} /\ db'[s] = db[s]
  BY <1>3 DEF RowStep, IdleStep
<1> QED
  BY <1>1, <1>2, <1>3 DEF SettleOutcome

\* A swap other than the one a step works on.
LEMMA OthersAreSafe ==
    ASSUME TypeOK, NEW p \in Procs, NEW s \in Swaps, Frame(p, s),
           NEW t \in Swaps \ {s}, Safe(t),
           \A w \in Sweepers : sweep'[w] \subseteq sweep[w],
           cleared \subseteq cleared', touched \subseteq touched'
    PROVE  Safe(t)'
<1>1. /\ db'[t] = db[t] /\ sends'[t] = sends[t]
      /\ \A q \in Procs : cache'[q][t] = cache[q][t]
  BY DEF Frame
<1>2. RowStep(t)
  BY <1>1 DEF RowStep
<1>3. IdleStep(t)
  BY <1>1 DEF IdleStep, DelayedInCache, Cached
<1>4. sends[t] \in Nat
  BY MaxSendsIsNat DEF TypeOK
<1> QED
  BY <1>1, <1>2, <1>3, <1>4, SafeStep

\* A step of process p on swap s that does s no harm.
LEMMA StepOnOneSwap ==
    ASSUME PayoutInv, NEW p \in Procs, NEW s \in Swaps, Frame(p, s),
           sends'[s] \in {sends[s], sends[s] + 1}, RowStep(s), IdleStep(s),
           \A w \in Sweepers : sweep'[w] \subseteq sweep[w],
           cleared \subseteq cleared', touched \subseteq touched'
    PROVE  \A t \in Swaps : Safe(t)'
<1>1. TypeOK /\ sends[s] \in Nat
  BY MaxSendsIsNat DEF PayoutInv, TypeOK
<1>2. Safe(s)'
  BY <1>1, SafeStep DEF PayoutInv
<1>3. \A t \in Swaps \ {s} : Safe(t)'
  BY <1>1, OthersAreSafe DEF PayoutInv
<1> QED
  BY <1>2, <1>3

\* A confirmation settles only swaps that it clears.
LEMMA ConfirmIsSafe ==
    ASSUME PayoutInv, NEW p \in Procs, NEW s \in Swaps, ConfirmOutcome(p, s), Frame(p, s),
           cleared \subseteq cleared', touched' = touched,
           \A w \in Sweepers : sweep'[w] \subseteq sweep[w]
    PROVE  /\ sends'[s] \in {sends[s], sends[s] + 1}
           /\ RowStep(s) /\ IdleStep(s)
<1>1. db[s] \in Row \cup {None} /\ sends[s] \in Nat
  BY MaxSendsIsNat DEF PayoutInv, TypeOK
<1>2. CASE sends'[s] = sends[s] /\ cache'[p][s] = cache[p][s] /\ db'[s] = db[s]
  BY <1>2 DEF RowStep, IdleStep, Frame, DelayedInCache, Cached
<1>3. CASE /\ sends'[s] = sends[s]
           /\ cache'[p][s] = None
           /\ \E d \in Swap : d.status = "late_deposit" /\ Stored(s, UpdateSwap(db[s], d))
  <2>1. RowStep(s)
    BY <1>1, <1>3, RowWritten
  <2>2. IdleStep(s)
    BY <1>3 DEF IdleStep, Frame, DelayedInCache, Cached
  <2> QED
    BY <1>3, <2>1, <2>2
<1>4. CASE /\ sends'[s] = sends[s]
           /\ cache'[p][s] \in Swap /\ cache'[p][s].status = "awaiting_deposit"
           /\ Stored(s, UpdateSwap(db[s], cache'[p][s]))
  <2>1. RowStep(s)
    BY <1>1, <1>4, RowWritten
  <2>2. IdleStep(s)
    BY <1>4 DEF IdleStep, Frame, DelayedInCache, Cached
  <2> QED
    BY <1>4, <2>1, <2>2
<1>5. CASE s \in cleared' /\ \E o \in Swap : SettleOutcome(p, s, o)
  BY <1>1, <1>5, SettleIsSafe DEF Backed
<1> QED
  BY <1>2, <1>3, <1>4, <1>5 DEF ConfirmOutcome

-----------------------------------------------------------------------------
(* The actions. *)

LEMMA UserIsSafe ==
    ASSUME PayoutInv, NEW s \in Swaps, UserStep(s)
    PROVE  \A t \in Swaps : Safe(t)'
<1>1. EngineOK /\ API \in Procs /\ db[s] \in Row \cup {None}
  BY TypeSplit, ProcsType DEF PayoutInv, EngineOK
<1>2. ASSUME NEW n \in Amounts, NEW st \in {"pending", "circuit_breaker"},
             CreateSwap(s, n, st)
      PROVE  \A t \in Swaps : Safe(t)'
  <2> DEFINE o == [status |-> st, admin |-> "absent", net |-> n]
  <2>1. /\ Frame(API, s) /\ sends'[s] = sends[s]
        /\ cache'[API][s] = o /\ Stored(s, AddSwap(o))
    BY <1>1, <1>2, CreateContract
  <2>2. /\ sweep' = sweep /\ cleared' = cleared /\ touched' = touched
        /\ sends[s] = 0 /\ db[s] = None
    BY <1>2 DEF CreateSwap, loopVars, envVars
  <2>3. sends[s] \in Nat
    BY <2>2
  <2>4. Safe(s)'
    <3>1. RowAgrees(s)' /\ CompletedWasPaid(s)'
      BY <2>1, <2>2 DEF Stored, AddSwap, RowAgrees, CompletedWasPaid
    <3>2. \A p \in Procs : ~ DelayedInCache(p, s)'  \/ Backed(s)
      BY <2>1, <2>2 DEF Frame, DelayedInCache, Cached, PayoutInv, Safe, UnbackedIsIdle
    <3>3. UnbackedIsIdle(s)'
      BY <2>1, <2>2, <3>2
      DEF Stored, AddSwap, PayoutInv, Safe, UnbackedIsIdle, Backed
    <3> QED
      BY <3>1, <3>3 DEF Safe
  <2>5. \A t \in Swaps \ {s} : Safe(t)'
    BY <1>1, <2>1, <2>2, OthersAreSafe DEF PayoutInv
  <2> QED
    BY <2>4, <2>5
<1>3. CASE Deposit(s)
  <2>1. ASSUME NEW t \in Swaps
        PROVE  Safe(t)'
    <3>1. Safe(t) /\ db' = db /\ cache' = cache /\ sends' = sends /\ sweep' = sweep
      BY <1>3 DEF Deposit, PayoutInv, engineVars, loopVars
    <3>2. cleared' = cleared /\ touched' = touched
      BY <1>3 DEF Deposit
    <3> QED
      BY <3>1, <3>2 DEF Safe, RowAgrees, CompletedWasPaid, UnbackedIsIdle,
         Backed, DelayedInCache, Cached
  <2> QED
    BY <2>1
<1>4. ASSUME NEW t \in Transactions, UserConfirm(s, t)
      PROVE  \A u \in Swaps : Safe(u)'
  <2>1. Frame(API, s) /\ ConfirmOutcome(API, s) /\ ClearedStep(s)
    BY <1>1, <1>4, ConfirmContract DEF UserConfirm
  <2>2. sweep' = sweep /\ cleared \subseteq cleared' /\ touched' = touched
    BY <1>4, <2>1 DEF UserConfirm, loopVars, ClearedStep
  <2> QED
    BY <1>1, <2>1, <2>2, ConfirmIsSafe, StepOnOneSwap
<1>5. CASE CancelSwap(s)
  <2>1. /\ Frame(API, s) /\ sends'[s] = sends[s] /\ cache'[API][s] = None
        /\ \E u \in Swap : u.status = "cancelled" /\ Stored(s, UpdateSwap(db[s], u))
    BY <1>1, <1>5, CancelContract
  <2>2. sweep' = sweep /\ cleared' = cleared /\ touched' = touched
    BY <1>5 DEF CancelSwap, loopVars, envVars
  <2>3. RowStep(s)
    BY <1>1, <2>1, RowWritten
  <2>4. IdleStep(s)
    BY <2>1, <2>2 DEF IdleStep, Frame, DelayedInCache, Cached
  <2> QED
    BY <1>1, <2>1, <2>2, <2>3, <2>4, StepOnOneSwap
<1> QED
  BY <1>2, <1>3, <1>4, <1>5 DEF UserStep

LEMMA AdminIsSafe ==
    ASSUME PayoutInv, NEW s \in Swaps, AdminStep(s)
    PROVE  \A t \in Swaps : Safe(t)'
<1>1. /\ EngineOK /\ API \in Procs
      /\ db[s] \in Row \cup {None} /\ sends[s] \in Nat
  BY TypeSplit, ProcsType, MaxSendsIsNat DEF PayoutInv, EngineOK
<1>2. /\ touched' = touched \cup {s} /\ cleared' = cleared /\ sweep' = sweep
  BY DEF AdminStep, SetSwapStatus, ClearAdminOverride, ReleaseCircuitBreaker,
     AdminSettle, SettleOrphaned, Touch, loopVars
<1>3. Backed(s)' /\ s \in touched'
  BY <1>2 DEF Backed
<1>4. Frame(API, s)
  BY <1>1, SetStatusContract, ClearContract, ReleaseContract, AdminSettleContract,
     OrphanContract DEF AdminStep
<1>5. \/ \E o \in Swap : SettleOutcome(API, s, o)
      \/ /\ sends'[s] = sends[s]
         /\ \E u \in Swap : Stored(s, UpdateSwap(db[s], u))
      \/ /\ sends'[s] = sends[s] + 1
         /\ db'[s] = UpdateStatus(db[s], "completed") \/ db'[s] = db[s]
  BY <1>1, SetStatusContract, ClearContract, ReleaseContract, AdminSettleContract,
     OrphanContract DEF AdminStep, AdminOutcome
<1>6. sends'[s] \in {sends[s], sends[s] + 1} /\ RowStep(s)
  <2>1. CASE \E o \in Swap : SettleOutcome(API, s, o)
    BY <1>1, <1>3, <2>1, SettleIsSafe
  <2>2. CASE /\ sends'[s] = sends[s]
             /\ \E u \in Swap : Stored(s, UpdateSwap(db[s], u))
    BY <1>1, <1>3, <2>2, RowWritten
  <2>3. CASE /\ sends'[s] = sends[s] + 1
             /\ db'[s] = UpdateStatus(db[s], "completed") \/ db'[s] = db[s]
    BY <1>1, <1>3, <2>3, RowAfterStatus DEF RowStep, SwapStatuses
  <2> QED
    BY <1>5, <2>1, <2>2, <2>3
<1>7. IdleStep(s)
  BY <1>3 DEF IdleStep
<1> QED
  BY <1>1, <1>2, <1>4, <1>6, <1>7, StepOnOneSwap

LEMMA BackgroundIsSafe ==
    ASSUME PayoutInv, BackgroundStep
    PROVE  \A t \in Swaps : Safe(t)'
<1>1. /\ TypeOK /\ EngineOK /\ BG \in Procs
      /\ \A t \in Swaps : sends[t] \in Nat /\ db[t] \in Row \cup {None}
  BY TypeSplit, ProcsType, MaxSendsIsNat DEF PayoutInv, EngineOK
<1>2. ASSUME NEW w \in Sweepers, StartSweep(w)
      PROVE  \A t \in Swaps : Safe(t)'
  <2>1. /\ db' = db /\ cache' = cache /\ sends' = sends
        /\ cleared' = cleared /\ touched' = touched
        /\ sweep' = [sweep EXCEPT ![w] = Delayed(ProcOf(w))]
    BY <1>2 DEF StartSweep, engineVars, envVars
  <2>2. ASSUME NEW t \in Swaps
        PROVE  Safe(t)'
    <3>1. RowStep(t)
      BY <2>1 DEF RowStep
    <3>2. IdleStep(t)
      BY <1>1, <2>1, ProcsType
      DEF IdleStep, Delayed, DelayedInCache, DelayedInStore, Cached, TypeOK
    <3> QED
      BY <1>1, <2>1, <3>1, <3>2, SafeStep DEF PayoutInv
  <2> QED
    BY <2>2
<1>3. ASSUME NEW w \in Sweepers, NEW s \in Swaps, SweepOne(w, s)
      PROVE  \A t \in Swaps : Safe(t)'
  <2> DEFINE p == ProcOf(w)
  <2>1. /\ p \in Procs /\ Frame(p, s) /\ s \in sweep[w]
        /\ UNCHANGED engineVars \/ \E o \in Swap : SettleOutcome(p, s, o)
        /\ \A v \in Sweepers : sweep'[v] \subseteq sweep[v]
    BY <1>1, <1>3, SweepContract, ProcsType
  <2>2. cleared' = cleared /\ touched' = touched
    BY <1>3 DEF SweepOne, envVars
  <2>3. Backed(s) /\ Backed(s)'
    BY <2>1, <2>2 DEF PayoutInv, Safe, UnbackedIsIdle, Backed
  <2> HIDE DEF p
  <2>4. sends'[s] \in {sends[s], sends[s] + 1} /\ RowStep(s) /\ IdleStep(s)
    <3>1. CASE UNCHANGED engineVars
      BY <2>3, <3>1 DEF engineVars, RowStep, IdleStep
    <3>2. CASE \E o \in Swap : SettleOutcome(p, s, o)
      BY <1>1, <2>1, <2>3, <3>2, SettleIsSafe
    <3> QED
      BY <2>1, <3>1, <3>2
  <2> QED
    BY <2>1, <2>2, <2>4, StepOnOneSwap
<1>4. ASSUME NEW old \in SUBSET Swaps, ExpireSwaps(old)
      PROVE  \A t \in Swaps : Safe(t)'
  <2>1. sweep' = sweep /\ cleared' = cleared /\ touched' = touched
    BY <1>4 DEF ExpireSwaps, loopVars, envVars
  <2>2. ASSUME NEW t \in Swaps
        PROVE  Safe(t)'
    <3>1. /\ sends'[t] = sends[t]
          /\ \A q \in Procs : cache'[q][t] \in {cache[q][t], None}
          /\ \/ db'[t] = db[t]
             \/ /\ db'[t] \in Row
                /\ db'[t].col = "timed_out" /\ db'[t].data.status = "timed_out"
      BY <1>1, <1>4, ExpireContract
    <3>2. RowStep(t)
      BY <3>1, NoneIsNoRecord DEF RowStep
    <3>3. IdleStep(t)
      BY <2>1, <3>1 DEF IdleStep, DelayedInCache, Cached
    <3> QED
      BY <1>1, <2>1, <3>1, <3>2, <3>3, SafeStep DEF PayoutInv
  <2> QED
    BY <2>2
<1>5. ASSUME NEW seen \in SUBSET Swaps, StartScan(seen)
      PROVE  \A t \in Swaps : Safe(t)'
  BY <1>5 DEF StartScan, PayoutInv, Safe, RowAgrees, CompletedWasPaid, UnbackedIsIdle,
     Backed, DelayedInCache, Cached, engineVars, envVars
<1>6. ASSUME NEW s \in Swaps, ScanOne(s)
      PROVE  \A t \in Swaps : Safe(t)'
  <2>1. Frame(BG, s) /\ ConfirmOutcome(BG, s) /\ ClearedStep(s)
    BY <1>1, <1>6, ConfirmContract DEF ScanOne, Transactions
  <2>2. sweep' = sweep /\ cleared \subseteq cleared' /\ touched' = touched
    BY <1>6, <2>1 DEF ScanOne, ClearedStep
  <2> QED
    BY <1>1, <2>1, <2>2, ConfirmIsSafe, StepOnOneSwap
<1> QED
  BY <1>2, <1>3, <1>4, <1>5, <1>6 DEF BackgroundStep

LEMMA ProcessIsSafe ==
    ASSUME PayoutInv, ProcessStep
    PROVE  \A t \in Swaps : Safe(t)'
<1>1. /\ TypeOK /\ EngineOK /\ BG \in Procs
      /\ \A t \in Swaps : sends[t] \in Nat
  BY TypeSplit, ProcsType, MaxSendsIsNat DEF PayoutInv, EngineOK
<1>2. /\ db' = db /\ sends' = sends /\ cleared' = cleared /\ touched' = touched
  BY DEF ProcessStep, Stop, Start, Respawn, envVars
<1>3. \A w \in Sweepers : sweep'[w] \subseteq sweep[w]
  BY <1>1 DEF ProcessStep, Stop, Start, Respawn, loopVars, TypeOK
<1>4. ASSUME NEW t \in Swaps, NEW p \in Procs, DelayedInCache(p, t)'
      PROVE  \/ \E q \in Procs : DelayedInCache(q, t)
             \/ db[t] # None /\ db[t].data.status = "delayed"
  <2>1. ASSUME NEW q \in Procs, Stop(q)
        PROVE  DelayedInCache(p, t)
    BY <1>4, <2>1 DEF Stop, DelayedInCache, Cached
  <2>2. CASE Start
    <3>1. cache'[p][t] = PendingSwap(db[t])
      BY <1>1, <2>2, StartContract
    <3> QED
      BY <1>4, <3>1 DEF DelayedInCache, Cached, PendingSwap
  <2>3. CASE Respawn
    <3>1. cache'[p][t] \in {cache[p][t], cache[BG][t]}
      BY <1>1, <2>3, RespawnContract
    <3> QED
      BY <1>1, <1>4, <3>1 DEF DelayedInCache, Cached
  <2> QED
    BY <2>1, <2>2, <2>3 DEF ProcessStep
<1>5. ASSUME NEW t \in Swaps
      PROVE  Safe(t)'
  <2>1. RowStep(t)
    BY <1>2 DEF RowStep
  <2>2. IdleStep(t)
    BY <1>2, <1>3, <1>4 DEF IdleStep
  <2> QED
    BY <1>1, <1>2, <2>1, <2>2, SafeStep DEF PayoutInv
<1> QED
  BY <1>5

-----------------------------------------------------------------------------

LEMMA PayoutInvInit == Init => PayoutInv
BY InitType DEF Init, PayoutInv, Safe, RowAgrees, CompletedWasPaid, UnbackedIsIdle,
   DelayedInCache, Cached

LEMMA PayoutInvStep == PayoutInv /\ [Next]_vars => PayoutInv'
<1> SUFFICES ASSUME PayoutInv, [Next]_vars
             PROVE  PayoutInv'
  OBVIOUS
<1>1. TypeOK'
  BY NextType DEF PayoutInv
<1>2. CASE UNCHANGED vars
  <2>1. \A t \in Swaps : Safe(t)'
    BY <1>2 DEF PayoutInv, Safe, RowAgrees, CompletedWasPaid, UnbackedIsIdle,
       Backed, DelayedInCache, Cached, vars, engineVars, loopVars, envVars
  <2> QED
    BY <1>1, <2>1 DEF PayoutInv
<1>3. CASE Next
  <2>1. \A t \in Swaps : Safe(t)'
    BY <1>3, UserIsSafe, AdminIsSafe, BackgroundIsSafe, ProcessIsSafe DEF Next
  <2> QED
    BY <1>1, <2>1 DEF PayoutInv
<1> QED
  BY <1>2, <1>3

LEMMA PayoutInvariant == Spec => []PayoutInv
<1>1. Init => PayoutInv
  BY PayoutInvInit
<1>2. PayoutInv /\ [Next]_vars => PayoutInv'
  BY PayoutInvStep
<1> QED
  BY <1>1, <1>2, PTL DEF Spec

\* The status column of a row agrees with its JSON, except in a flagged swap that
\* was just created.
THEOREM ColumnAgrees == Spec => []StatusColumnAgrees
<1>1. PayoutInv => StatusColumnAgrees
  BY DEF PayoutInv, Safe, RowAgrees, StatusColumnAgrees
<1> QED
  BY <1>1, PayoutInvariant, PTL

\* A row that reads "completed" was paid, or an administrator touched it.
THEOREM CompletedIsPaid == Spec => []CompletedMeansPaid
<1>1. PayoutInv => CompletedMeansPaid
  BY DEF PayoutInv, Safe, CompletedWasPaid, CompletedMeansPaid
<1> QED
  BY <1>1, PayoutInvariant, PTL

\* The wallet pays only swaps for which a confirmation named a transaction with the
\* required confirmations, or that an administrator touched: whichever process,
\* sweep or restart pays, and whatever fails on the way.
THEOREM PayoutsAreBacked == Spec => []NoUnbackedPayout
<1>1. PayoutInv => NoUnbackedPayout
  BY MaxSendsIsNat
  DEF PayoutInv, Safe, UnbackedIsIdle, Backed, NoUnbackedPayout
<1> QED
  BY <1>1, PayoutInvariant, PTL

=============================================================================
