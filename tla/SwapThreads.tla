----------------------------- MODULE SwapThreads -----------------------------
(***************************************************************************)
(* One swap in one process, with the calls of its threads interleaved at   *)
(* their wallet and table accesses: the API's worker threads, the          *)
(* settlement thread and the cleanup thread share the cache, the swap      *)
(* objects in it and the table, and the engine takes no lock.              *)
(*                                                                         *)
(* SwapEngine takes a whole call as one step.  Here a call looks the swap  *)
(* up, works on the object it found (the cached one is shared with every   *)
(* other call that found it), waits for the wallet, reads the row, and     *)
(* writes it.  The history variable overlapped tells whether a call has    *)
(* begun while another was in progress: until then a call is one step of   *)
(* SwapEngine, and what goes wrong afterwards takes two of them.           *)
(***************************************************************************)
EXTENDS SwapStore, FiniteSets

CONSTANTS
    Callers,          \* the API's worker threads
    Settler, Cleaner, \* the settlement thread and the cleanup thread
    AdminTargets,     \* the statuses an administrator sets
    ByAdmin,          \* the administrator's calls: "settle", or a status he sets
    Others,           \* confirmed transactions that are not the swap's deposit
    Required,         \* the values of confirmations_required; 1 is every number > 0
    MaxSends,         \* bound: payouts counted
    MaxBusy,          \* bound: calls in progress at once
    Id                \* the swap, as SwapEngine names it

Threads == Callers \cup {Settler, Cleaner}

ASSUME AmountIsGiven == Cardinality(Amounts) = 1
ASSUME ByAdminKnown == ByAdmin \subseteq {"settle"} \cup AdminTargets
ASSUME RequiredKnown == Required \subseteq {0, 1}
ASSUME IdIsApart == Id \notin Others
ASSUME CallersAreFinite == IsFiniteSet(Callers)
ASSUME TargetsAreStatuses == AdminTargets \subseteq SwapStatuses
ASSUME MaxSendsIsNat == MaxSends \in Nat
ASSUME MaxBusyIsNat == MaxBusy \in Nat
ASSUME LoopsAreApart == Settler # Cleaner /\ {Settler, Cleaner} \cap Callers = {}

\* The deposit goes by the id of the swap.
Transactions == {Id} \cup Others

\* The call a thread is in; an administrator's is named by the status it sets.
\* "drop" is a confirmation that will remove the swap from the cache.
Calls == {"none", "confirm", "settle", "cancel", "drop"} \cup AdminTargets

\* Where in it the thread is.
Places == {"idle", "lookup", "read", "found", "late_stored", "late_cached",
           "confirmations", "sent", "complete", "update", "write", "expire"}

\* Enough objects for the cache and every thread to hold one of their own.
Objects == 1..(Cardinality(Threads) + 1)
NoObject == 0

VARIABLES
    row,        \* the swap's row
    heap,       \* the swap objects in memory; None for one nobody refers to
    cached,     \* the object in _pending_swaps
    sends,      \* how many payouts the wallet made
    confirmed,  \* the transactions that are confirmed on the chain
    touched,    \* history: whether an administrator has acted on the swap
    cleared,    \* history: whether the swap went to settlement on a transaction
                \* with the required confirmations
    due,        \* the background threads whose loop has found the swap
    op, pc,     \* the call each thread is in, and where in it
    ref,        \* the object each thread works on
    out,        \* the row each thread is about to write
    overlapped, \* history: whether a call began, or a loop looked for its work,
                \* while another call was in progress
    before      \* history: what the one call in progress found when it began

callVars == <<op, pc, ref, out>>
viewVars == <<overlapped, before>>
vars == <<row, heap, cached, sends, confirmed, touched, cleared, due, callVars, viewVars>>

TypeOK ==
    /\ row \in Row \cup {None}
    /\ heap \in [Objects -> Swap \cup {None}]
    /\ cached \in Objects \cup {NoObject}
    /\ sends \in 0..MaxSends
    /\ confirmed \subseteq Transactions
    /\ touched \in BOOLEAN
    /\ cleared \in BOOLEAN
    /\ overlapped \in BOOLEAN
    /\ due \subseteq {Settler, Cleaner}
    /\ op \in [Threads -> Calls]
    /\ pc \in [Threads -> Places]
    /\ ref \in [Threads -> Objects \cup {NoObject}]
    /\ out \in [Threads -> Row \cup {None}]

\* What the swap looks like from outside.
Outside ==
    [row |-> row, cache |-> IF cached = NoObject THEN None ELSE heap[cached],
     sends |-> sends, touched |-> touched, cleared |-> cleared, due |-> due]

Init ==
    /\ row = None
    /\ heap = [o \in Objects |-> None]
    /\ cached = NoObject
    /\ sends = 0
    /\ confirmed = Others
    /\ touched = FALSE
    /\ cleared = FALSE
    /\ due = {}
    /\ op = [t \in Threads |-> "none"]
    /\ pc = [t \in Threads |-> "idle"]
    /\ ref = [t \in Threads |-> NoObject]
    /\ out = [t \in Threads |-> None]
    /\ overlapped = FALSE
    /\ before = None

-----------------------------------------------------------------------------
(* Objects and calls. *)

Busy == {t \in Threads : pc[t] # "idle"}

\* The view from outside is kept while one call is in progress, and is of no use
\* once calls have overlapped.
Meets == overlapped' = (overlapped \/ Busy # {})
Remember == Meets /\ before' = IF overlapped' THEN None ELSE Outside
Keep == overlapped' = overlapped /\ before' = IF Busy' = {} THEN None ELSE before

\* The objects become h; one that nothing refers to any more is freed.
Heap(h) ==
    heap' = [o \in Objects |->
                IF o = cached' \/ \E t \in Threads : ref'[t] = o THEN h[o] ELSE None]

Unused == CHOOSE o \in Objects : o # cached /\ \A t \in Threads : ref[t] # o

Object(t) == heap[ref[t]]
SetStatus(t, st) == [heap EXCEPT ![ref[t]].status = st]

At(t, place) == pc[t] = place
Goto(t, place) ==
    pc' = [pc EXCEPT ![t] = place] /\ UNCHANGED <<op, ref, out>>

\* The call returns or raises.
Return(t) ==
    /\ op' = [op EXCEPT ![t] = "none"]
    /\ pc' = [pc EXCEPT ![t] = "idle"]
    /\ ref' = [ref EXCEPT ![t] = NoObject]
    /\ out' = [out EXCEPT ![t] = None]

Begin(t, call) ==
    /\ row # None
    /\ At(t, "idle") /\ Cardinality(Busy) < MaxBusy
    /\ op' = [op EXCEPT ![t] = call]
    /\ pc' = [pc EXCEPT ![t] = "lookup"]
    /\ UNCHANGED <<row, heap, cached, sends, confirmed, cleared, ref, out>>
    /\ Remember

\* _pending_swaps.get, and history.get_swap when that finds nothing.  Only
\* _settle_swap puts what it read into the cache.
Lookup(t) ==
    /\ At(t, "lookup")
    /\ pc' = [pc EXCEPT ![t] = IF cached = NoObject THEN "read" ELSE "found"]
    /\ ref' = [ref EXCEPT ![t] = cached]
    /\ UNCHANGED <<row, cached, sends, confirmed, touched, cleared, due, op, out>>
    /\ Heap(heap)
    /\ Keep

Read(t) ==
    /\ At(t, "read")
    /\ pc' = [pc EXCEPT ![t] = "found"]
    /\ ref' = [ref EXCEPT ![t] = Unused]
    /\ cached' = IF op[t] = "settle" THEN Unused ELSE cached
    /\ UNCHANGED <<row, sends, confirmed, touched, cleared, due, op, out>>
    /\ Heap([heap EXCEPT ![Unused] = GetSwap(row)])
    /\ Keep

-----------------------------------------------------------------------------
(* confirm_deposit. *)

\* NotOverridden is a faulty variant, for the mutation checks.
NotOverridden(o) == FALSE
Overridden(o) == o.admin \in AdminFinal

\* Whether the swap is cached is asked again, about what may be another object.
Route(t) ==
    LET o == Object(t) IN
    /\ At(t, "found") /\ op[t] = "confirm"
    /\ \/ /\ Overridden(o)
          /\ Return(t)
       \/ /\ ~ Overridden(o) /\ cached = NoObject
          /\ IF o.status \in LateWhenStored THEN Goto(t, "late_stored") ELSE Return(t)
       \/ /\ ~ Overridden(o) /\ cached # NoObject
          /\ IF o.status \in Unconfirmed THEN Goto(t, "confirmations")
             ELSE IF o.status \in LateWhenCached THEN Goto(t, "late_cached")
             ELSE Return(t)
    /\ UNCHANGED <<row, cached, sends, confirmed, touched, cleared, due>>
    /\ Heap(heap)
    /\ Keep

\* The wallet told the amount that arrived.
Late(t) ==
    /\ pc[t] \in {"late_stored", "late_cached"}
    /\ pc' = [pc EXCEPT ![t] = "update"]
    /\ op' = [op EXCEPT ![t] = IF At(t, "late_cached") THEN "drop" ELSE @]
    /\ UNCHANGED <<row, cached, sends, confirmed, touched, cleared, due, ref, out>>
    /\ Heap(SetStatus(t, "late_deposit"))
    /\ Keep

\* Faulty variant of EnoughConfirmations, for the mutation checks.
AnyConfirmations(x) == TRUE
\* The check of the transaction that the caller named: it may be any the wallet
\* knows, and is not held against the swap.  With none required nothing is asked.
EnoughConfirmations(x) == 0 \in Required \/ x \in confirmed

\* The scan names the deposit it found, a caller any transaction he likes.  (It is
\* named when the call begins; nothing asks for it before.)
Named(t) == IF t = Cleaner THEN {Id} ELSE Transactions

\* The history goes by the chain, whatever the check says.
Record(x) == cleared' = (cleared \/ 0 \in Required \/ x \in confirmed)

\* The wallet told the confirmations, or could not be asked; when none are
\* required it is not asked.
Confirmations(t) ==
    /\ At(t, "confirmations")
    /\ UNCHANGED <<row, cached, sends, confirmed, touched, due>>
    /\ \/ /\ Required # {0}
          /\ Goto(t, "update")
          /\ UNCHANGED cleared
          /\ Heap(SetStatus(t, "awaiting_deposit"))
       \/ /\ \E x \in Named(t) : EnoughConfirmations(x) /\ Record(x)
          /\ op' = [op EXCEPT ![t] = "settle"]
          /\ pc' = [pc EXCEPT ![t] = "lookup"]
          /\ UNCHANGED <<ref, out>>
          /\ Heap(SetStatus(t, "processing"))
       \/ /\ Required # {0}
          /\ Return(t)
          /\ UNCHANGED cleared
          /\ Heap(heap)
    /\ Keep

-----------------------------------------------------------------------------
(* _settle_swap. *)

Settling(t) == At(t, "found") /\ op[t] = "settle"
Elsewhere == UNCHANGED <<row, confirmed, touched, cleared, due>>

\* Pricing a late deposit fails before the wallet is asked.
RepriceFails(t) ==
    /\ Settling(t)
    /\ Object(t).status = "late_deposit"
    /\ Return(t)
    /\ UNCHANGED <<cached, sends>>
    /\ Elsewhere
    /\ Heap(heap)
    /\ Keep

Pay(t) ==
    /\ Settling(t)
    /\ sends < MaxSends
    /\ sends' = sends + 1
    /\ Goto(t, "sent")
    /\ UNCHANGED cached
    /\ Elsewhere
    /\ Heap(heap)
    /\ Keep

\* The wallet is short of coins.  DelayCompletes is a faulty variant, for the
\* mutation checks.
DelayTo(t, place) ==
    /\ Settling(t)
    /\ Goto(t, place)
    /\ UNCHANGED <<cached, sends>>
    /\ Elsewhere
    /\ Heap(SetStatus(t, "delayed"))
    /\ Keep
DelayCompletes(t) == DelayTo(t, "complete")
Delay(t) == DelayTo(t, "update")

Fail(t) ==
    /\ Settling(t)
    /\ Return(t)
    /\ UNCHANGED <<cached, sends>>
    /\ Elsewhere
    /\ Heap(SetStatus(t, "failed"))
    /\ Keep

\* The wallet's answer is back: the swap leaves the cache.  AnsweredKeepsCache is
\* a faulty variant, for the mutation checks.
Settled(t) == IF Object(t).status = "late_deposit" THEN "reconciled" ELSE "completed"
AnsweredKeepsCache(t) ==
    /\ At(t, "sent")
    /\ Goto(t, "complete")
    /\ UNCHANGED <<cached, sends>>
    /\ Elsewhere
    /\ Heap(SetStatus(t, Settled(t)))
    /\ Keep
Answered(t) ==
    /\ At(t, "sent")
    /\ cached' = NoObject
    /\ Goto(t, "complete")
    /\ UNCHANGED sends
    /\ Elsewhere
    /\ Heap(SetStatus(t, Settled(t)))
    /\ Keep

-----------------------------------------------------------------------------
(* The other calls. *)

Cancel(t) ==
    /\ At(t, "found") /\ op[t] = "cancel"
    /\ \/ /\ Object(t).status \in {"completed", "failed"}
          /\ Return(t)
          /\ UNCHANGED cached
          /\ Heap(heap)
       \/ /\ Object(t).status \notin {"completed", "failed"}
          /\ cached' = NoObject
          /\ Goto(t, "update")
          /\ Heap(SetStatus(t, "cancelled"))
    /\ UNCHANGED <<row, sends, confirmed, touched, cleared, due>>
    /\ Keep

SetSwapStatus(t) ==
    /\ At(t, "found") /\ op[t] \in AdminTargets
    /\ cached' = IF op[t] \in DroppedOnSet THEN NoObject ELSE cached
    /\ Goto(t, "update")
    /\ UNCHANGED <<row, sends, confirmed, touched, cleared, due>>
    /\ Heap([heap EXCEPT ![ref[t]].status = op[t], ![ref[t]].admin = op[t]])
    /\ Keep

-----------------------------------------------------------------------------
(* The table: a write is prepared from the row as it is read, and done later. *)

Update(t) ==
    /\ At(t, "update")
    /\ out' = [out EXCEPT ![t] = UpdateSwap(row, Object(t))]
    /\ pc' = [pc EXCEPT ![t] = "write"]
    /\ UNCHANGED <<row, heap, cached, sends, confirmed, touched, cleared, due, op, ref>>
    /\ Keep

Complete(t) ==
    /\ At(t, "complete")
    /\ out' = [out EXCEPT ![t] = CompleteSwap(row)]
    /\ pc' = [pc EXCEPT ![t] = "write"]
    /\ UNCHANGED <<row, heap, cached, sends, confirmed, touched, cleared, due, op, ref>>
    /\ Keep

Write(t) ==
    /\ At(t, "write")
    /\ row' = out[t]
    /\ cached' = IF op[t] = "drop" THEN NoObject ELSE cached
    /\ Return(t)
    /\ UNCHANGED <<sends, confirmed, touched, cleared, due>>
    /\ Heap(heap)
    /\ Keep

-----------------------------------------------------------------------------
(* Who calls what. *)

CreateSwap(st) ==
    /\ row = None
    /\ \E n \in Amounts :
          LET o == [status |-> st, admin |-> "absent", net |-> n] IN
          /\ row' = AddSwap(o)
          /\ cached' = Unused
          /\ heap' = [heap EXCEPT ![Unused] = o]
    /\ UNCHANGED <<sends, confirmed, touched, cleared, due, callVars>>
    /\ Keep

Deposit ==
    /\ row # None /\ Id \notin confirmed
    /\ confirmed' = confirmed \cup {Id}
    /\ UNCHANGED <<row, heap, cached, sends, touched, cleared, due, callVars, viewVars>>

UserCall(t, call) == Begin(t, call) /\ UNCHANGED <<touched, due>>
AdminCall(t, call) == Begin(t, call) /\ touched' = TRUE /\ UNCHANGED due

\* A loop looks for its work, and takes the swap in hand later.
Looks == Meets /\ before' = None

StartSweep ==
    /\ At(Settler, "idle") /\ Settler \notin due
    /\ \/ cached # NoObject /\ heap[cached].status = "delayed"
       \/ row # None /\ row.col = "delayed"
    /\ due' = due \cup {Settler}
    /\ UNCHANGED <<row, heap, cached, sends, confirmed, touched, cleared, callVars>>
    /\ Looks

StartScan ==
    /\ At(Cleaner, "idle") /\ Cleaner \notin due
    /\ row # None /\ row.col \notin NotScanned
    /\ due' = due \cup {Cleaner}
    /\ UNCHANGED <<row, heap, cached, sends, confirmed, touched, cleared, callVars>>
    /\ Looks

LoopCall(t, call) ==
    /\ t \in due
    /\ Begin(t, call)
    /\ due' = due \ {t}
    /\ UNCHANGED touched

\* The age limit has passed: the row is read, then written; the swap leaves the
\* cache.
ReadExpired ==
    /\ At(Cleaner, "idle") /\ Cleaner \notin due /\ Cardinality(Busy) < MaxBusy
    /\ row # None /\ row.col \in Expirable /\ row.data.status \in Expirable
    /\ out' = [out EXCEPT ![Cleaner] =
                  [col |-> "timed_out", data |-> [row.data EXCEPT !.status = "timed_out"]]]
    /\ pc' = [pc EXCEPT ![Cleaner] = "expire"]
    /\ UNCHANGED <<row, heap, cached, sends, confirmed, touched, cleared, due, op, ref>>
    /\ Remember

Expire ==
    /\ At(Cleaner, "expire")
    /\ row' = out[Cleaner]
    /\ cached' = NoObject
    /\ Return(Cleaner)
    /\ UNCHANGED <<sends, confirmed, touched, cleared, due>>
    /\ Heap(heap)
    /\ Keep

CallStep(t) ==
    \/ Lookup(t) \/ Read(t)
    \/ Route(t) \/ Late(t) \/ Confirmations(t)
    \/ RepriceFails(t) \/ Pay(t) \/ Delay(t) \/ Fail(t) \/ Answered(t)
    \/ Cancel(t) \/ SetSwapStatus(t)
    \/ Update(t) \/ Complete(t) \/ Write(t)

Next ==
    \/ \E st \in {"pending", "circuit_breaker"} : CreateSwap(st)
    \/ Deposit
    \/ \E t \in Callers :
          \/ \E call \in {"confirm", "cancel"} : UserCall(t, call)
          \/ \E call \in ByAdmin : AdminCall(t, call)
    \/ StartSweep \/ LoopCall(Settler, "settle")
    \/ StartScan \/ LoopCall(Cleaner, "confirm")
    \/ ReadExpired \/ Expire
    \/ \E t \in Threads : CallStep(t)

Spec == Init /\ [][Next]_vars

-----------------------------------------------------------------------------
(* Properties. *)

\* However the threads interleave, the wallet pays only a swap that went to
\* settlement on a transaction with the required confirmations, or on which an
\* administrator acted.
NoUnbackedPayout == sends > 0 => cleared \/ touched

\* However they interleave, a row that reads "completed" was paid, or an
\* administrator acted on the swap.
CompletedMeansPaid ==
    row # None /\ "completed" \in {row.col, row.data.status} => sends > 0 \/ touched

\* A swap that no administrator touched is paid a second time only after calls on
\* it have overlapped: one call after the other, the engine pays it once.
PaidAgainByOverlap == sends > 1 /\ ~ touched => overlapped

\* A row that an administrator set to a final status becomes a late deposit only
\* after calls have overlapped: confirm_deposit respects his mark as it finds it.
OverriddenByOverlap ==
    [][row # None /\ AdminColumn(row) \in AdminFinal
          /\ row.col # "late_deposit" /\ row'.col = "late_deposit" => overlapped]_row

-----------------------------------------------------------------------------
(* What the calls of a process implement. *)

\* A call shows its effect when it ends.
View == IF Busy = {} THEN Outside ELSE before

OfSwap(v) == [s \in {Id} |-> v]
IfIn(b) == IF b THEN {Id} ELSE {}

Engine == INSTANCE SwapEngine WITH
    Swaps <- {Id}, ToCoin <- OfSwap("coin"),
    API <- "main", BG <- "main", Sweepers <- {"loop"}, Faults <- {},
    db <- OfSwap(View.row),
    cache <- [p \in {"main"} |-> OfSwap(View.cache)],
    alive <- [p \in {"main"} |-> TRUE],
    sends <- OfSwap(View.sends),
    sweep <- [w \in {"loop"} |-> IfIn(Settler \in View.due)],
    scan <- IfIn(Cleaner \in View.due),
    touched <- IfIn(View.touched),
    cleared <- IfIn(View.cleared)

\* Until calls overlap, each is one step of SwapEngine: lookups, waits, reads,
\* writes and shared objects included, it does what the engine is shown to do.
ImplementsEngine ==
    Engine!Init /\ [][overlapped' \/ [Engine!Next]_(Engine!vars)]_vars
=============================================================================
