-------------------------- MODULE ThreadsEngineProofs --------------------------
(***************************************************************************)
(* Until calls on a swap overlap, the calls of SwapThreads are the steps   *)
(* of SwapEngine, for any number of API threads.                           *)
(*                                                                         *)
(* View shows a call's effect when the call ends.  Every step of a call    *)
(* but its last therefore stutters, and the last must be the one step of   *)
(* SwapEngine that does all the call did.  What that step is depends on    *)
(* what the call found, and OnTrack keeps it in mind: it relates where a   *)
(* call is to the view its caller had when it began.                       *)
(***************************************************************************)
EXTENDS SwapThreadsProofs

-----------------------------------------------------------------------------
(* Who a call is for, and what it found. *)

Seen  == IF cached = NoObject THEN None ELSE heap[cached]
Found == IF before.cache # None THEN before.cache ELSE GetSwap(before.row)

ByUser(t) == t \in Callers /\ touched = before.touched /\ due = before.due
ByAdministrator(t) == t \in Callers /\ touched = TRUE /\ due = before.due
ByLoop(t, l) ==
    /\ t = l /\ l \in before.due
    /\ touched = before.touched /\ due = before.due \ {l}

Confirms(t) == ByUser(t) \/ ByLoop(t, Cleaner)
Settles(t)  == ByAdministrator(t) \/ ByLoop(t, Settler)

\* It has not sent the swap to settlement.
Uncleared == cleared = before.cleared

\* A confirmation that may go on to settlement.
Confirmed(t) ==
    /\ Confirms(t) /\ before.cache # None
    /\ before.cache.status \in Unconfirmed /\ before.cache.admin \notin AdminFinal

\* The object a settlement works on.
ToSettle(t, o) ==
    \/ Settles(t) /\ Uncleared /\ o = Found
    \/ /\ Confirmed(t) /\ cleared = TRUE
       /\ \E x \in Named(t) : EnoughConfirmations(x)
       /\ o = [before.cache EXCEPT !.status = "processing"]

-----------------------------------------------------------------------------
(* What a call is about to do: write d into the row, and leave c in the cache. *)

LatePlan(t, d, c) ==
    /\ Confirms(t) /\ Uncleared /\ Found.admin \notin AdminFinal
    /\ Found.status \in IF before.cache # None THEN LateWhenCached ELSE LateWhenStored
    /\ d = [Found EXCEPT !.status = "late_deposit"] /\ c = None

AwaitPlan(t, d, c) ==
    /\ Confirmed(t) /\ Uncleared /\ Required # {0}
    /\ d = [before.cache EXCEPT !.status = "awaiting_deposit"] /\ c = d

DelayPlan(t, d, c) ==
    \E o \in Swap : ToSettle(t, o) /\ d = [o EXCEPT !.status = "delayed"] /\ c = d

CancelPlan(t, d, c) ==
    /\ ByUser(t) /\ Uncleared /\ Found.status \notin {"completed", "failed"}
    /\ d = [Found EXCEPT !.status = "cancelled"] /\ c = None

SetPlan(t, d, c) ==
    /\ ByAdministrator(t) /\ Uncleared
    /\ \E st \in AdminTargets :
          /\ d = [Found EXCEPT !.status = st, !.admin = st]
          /\ c = IF before.cache # None /\ st \notin DroppedOnSet THEN d ELSE None

Plan(t, d, c) ==
    \/ LatePlan(t, d, c) \/ AwaitPlan(t, d, c) \/ DelayPlan(t, d, c)
    \/ CancelPlan(t, d, c) \/ SetPlan(t, d, c)

-----------------------------------------------------------------------------
(* Where a call is, and what it may be about to do there. *)

\* What the cache shows once the call has written.
After(t) == IF op[t] = "drop" THEN None ELSE Seen

\* What a lookup finds now.
Latest == IF cached # NoObject THEN heap[cached] ELSE GetSwap(row)

Reads(t) ==
    /\ Uncleared
    /\ \/ op[t] = "confirm" /\ Confirms(t)
       \/ op[t] = "cancel" /\ ByUser(t)
       \/ op[t] \in AdminTargets /\ ByAdministrator(t)

LooksUp(t) ==
    \/ op[t] = "settle" /\ \E o \in Swap : o = Latest /\ ToSettle(t, o)
    \/ Reads(t) /\ Seen = before.cache

HasFound(t) ==
    \/ op[t] = "settle" /\ ref[t] = cached /\ \E o \in Swap : o = Object(t) /\ ToSettle(t, o)
    \/ /\ Reads(t) /\ Seen = before.cache /\ Object(t) = Found
       /\ cached # NoObject => ref[t] = cached

IsLate(t) ==
    /\ op[t] = "confirm" /\ Confirms(t) /\ Uncleared
    /\ Object(t) = Found /\ Found.admin \notin AdminFinal
    /\ \/ /\ pc[t] = "late_cached"
          /\ before.cache # None /\ Found.status \in LateWhenCached
       \/ /\ pc[t] = "late_stored"
          /\ before.cache = None /\ cached = NoObject /\ Found.status \in LateWhenStored

AsksWallet(t) ==
    /\ op[t] = "confirm" /\ Confirmed(t) /\ Uncleared
    /\ ref[t] = cached /\ Object(t) = before.cache

HasPaid(t) == sends = before.sends + 1 /\ \E o \in Swap : ToSettle(t, o)

WillUpdate(t) ==
    \E d \in Swap, c \in Swap \cup {None} : d = Object(t) /\ c = After(t) /\ Plan(t, d, c)

WillWrite(t) ==
    \/ /\ sends = before.sends
       /\ \E d \in Swap, c \in Swap \cup {None} :
             c = After(t) /\ Plan(t, d, c) /\ out[t] = UpdateSwap(before.row, d)
    \/ HasPaid(t) /\ After(t) = None /\ out[t] = CompleteSwap(before.row)

WillExpire(t) ==
    /\ t = Cleaner /\ touched = before.touched /\ Uncleared /\ due = before.due
    /\ row.col \in Expirable /\ row.data.status \in Expirable
    /\ out[t] = [col |-> "timed_out", data |-> [row.data EXCEPT !.status = "timed_out"]]

InPlace(t) ==
    /\ pc[t] \in {"lookup", "read"} => LooksUp(t)
    /\ pc[t] = "read" => cached = NoObject
    /\ pc[t] = "found" => HasFound(t)
    /\ pc[t] \in {"late_stored", "late_cached"} => IsLate(t)
    /\ pc[t] = "confirmations" => AsksWallet(t)
    /\ pc[t] \in {"sent", "complete"} => op[t] = "settle" /\ HasPaid(t)
    /\ pc[t] = "complete" => cached = NoObject
    /\ pc[t] = "update" => WillUpdate(t)
    /\ pc[t] = "write" => WillWrite(t)
    /\ pc[t] = "expire" => WillExpire(t)

\* The view a call began with, which the row keeps to until the call writes.
Recalled ==
    /\ row = before.row
    /\ before.cache \in Swap \cup {None}
    /\ before.sends \in 0..MaxSends
    /\ before.touched \in BOOLEAN /\ before.cleared \in BOOLEAN
    /\ before.due \subseteq {Settler, Cleaner}

Track(t) ==
    /\ Recalled
    /\ pc[t] \notin {"sent", "complete", "write"} => sends = before.sends
    /\ InPlace(t)

\* Nothing has happened to a swap that is not there yet.
Uncreated ==
    row = None => sends = 0 /\ Id \notin confirmed /\ ~ touched /\ ~ cleared /\ due = {}

OnTrack == ~ overlapped => Uncreated /\ \A t \in Threads : pc[t] # "idle" => Track(t)

-----------------------------------------------------------------------------
(* SwapEngine's steps on the one swap, in terms of the view. *)

\* What the view comes to show of the engine's own state.
Shows(r, c, n) == View'.row = r /\ View'.cache = c /\ View'.sends = n

LEMMA SameStore ==
    ASSUME NEW r, NEW o
    PROVE  /\ Engine!GetSwap(r) = GetSwap(r)
           /\ Engine!UpdateSwap(r, o) = UpdateSwap(r, o)
           /\ Engine!CompleteSwap(r) = CompleteSwap(r)
           /\ Engine!AddSwap(o) = AddSwap(o)
<1>1. Engine!GetSwap(r) = GetSwap(r)
  BY DEF Engine!GetSwap, GetSwap, Engine!AdminColumn, AdminColumn
<1> QED
  BY <1>1 DEF Engine!UpdateSwap, UpdateSwap, Engine!Merge, Merge, Engine!CompleteSwap, CompleteSwap,
              Engine!AddSwap, AddSwap

LEMMA SameStatuses ==
    /\ Engine!SwapStatuses = SwapStatuses /\ Engine!Unconfirmed = Unconfirmed
    /\ Engine!LateWhenStored = LateWhenStored /\ Engine!LateWhenCached = LateWhenCached
    /\ Engine!AdminFinal = AdminFinal /\ Engine!DroppedOnSet = DroppedOnSet
    /\ Engine!Expirable = Expirable /\ Engine!NotScanned = NotScanned
BY DEF Engine!SwapStatuses, SwapStatuses, Engine!Unconfirmed, Unconfirmed,
       Engine!LateWhenStored, LateWhenStored, Engine!LateWhenCached, LateWhenCached,
       Engine!AdminFinal, AdminFinal, Engine!DroppedOnSet, DroppedOnSet,
       Engine!Expirable, Expirable, Engine!NotScanned, NotScanned

LEMMA EngineLooksUp ==
    /\ Engine!Cached("main", Id) <=> View.cache # None
    /\ Engine!Lookup("main", Id) = IF View.cache # None THEN View.cache ELSE GetSwap(View.row)
<1>1. Engine!GetSwap(View.row) = GetSwap(View.row)
  BY SameStore
<1> QED
  BY <1>1 DEF Engine!Cached, Engine!Lookup, OfSwap

\* A step that writes u for the row's swap and leaves c in the cache.
LEMMA EngineWrites ==
    ASSUME NEW u, NEW c, NEW n, Shows(UpdateSwap(View.row, u), c, n)
    PROVE  /\ Engine!SetCache("main", Id, c)
           /\ Engine!Persist(Id, Engine!UpdateSwap(OfSwap(View.row)[Id], u))
<1>1. Engine!UpdateSwap(OfSwap(View.row)[Id], u) = View'.row
  BY SameStore DEF Shows, OfSwap
<1>2. Engine!Persist(Id, View'.row)
  BY DEF Engine!Persist, OfSwap
<1> QED
  BY <1>1, <1>2 DEF Shows, OfSwap, Engine!SetCache

LEMMA EnginePays ==
    ASSUME View.sends < MaxSends,
           Shows(CompleteSwap(View.row), None, View.sends + 1)
    PROVE  Engine!Paid("main", Id)
<1>1. Engine!CompleteSwap(OfSwap(View.row)[Id]) = View'.row
  BY SameStore DEF Shows, OfSwap
<1>2. Engine!Persist(Id, View'.row)
  BY DEF Engine!Persist, OfSwap
<1>3. Engine!Pay(Id) /\ Engine!SetCache("main", Id, None)
  BY DEF Shows, OfSwap, Engine!Pay, Engine!SetCache
<1> QED
  BY <1>1, <1>2, <1>3 DEF Engine!Paid

\* With one amount, pricing a late deposit again leaves the swap as it is.
LEMMA PricedAgain == ASSUME NEW o \in Swap PROVE o \in Engine!Priced(o)
<1>1. o.net \in Amounts /\ o = [o EXCEPT !.net = o.net]
  BY DEF Swap
<1> QED
  BY <1>1 DEF Engine!Priced

\* How a settlement of o may end.
LEMMA EngineSettles ==
    ASSUME NEW o \in Swap,
           \/ View.sends < MaxSends /\ Shows(CompleteSwap(View.row), None, View.sends + 1)
           \/ \E d \in Swap : /\ d = [o EXCEPT !.status = "delayed"]
                              /\ Shows(UpdateSwap(View.row, d), d, View.sends)
    PROVE  Engine!SettleReturns("main", Id, o)
<1>1. o \in Engine!Priced(o)
  BY PricedAgain
<1>2. CASE View.sends < MaxSends /\ Shows(CompleteSwap(View.row), None, View.sends + 1)
  BY <1>1, <1>2, EnginePays DEF Engine!SettleReturns
<1>3. ASSUME NEW d \in Swap, d = [o EXCEPT !.status = "delayed"],
             Shows(UpdateSwap(View.row, d), d, View.sends)
      PROVE  Engine!SettleReturns("main", Id, o)
  <2>1. /\ Engine!SetCache("main", Id, d)
        /\ Engine!Persist(Id, Engine!UpdateSwap(OfSwap(View.row)[Id], d))
    BY <1>3, EngineWrites
  <2>2. Engine!Delay("main", Id, o)
    BY <1>3, <2>1 DEF Engine!Delay, Shows, OfSwap
  <2> QED
    BY <1>1, <2>2 DEF Engine!SettleReturns
<1> QED
  BY <1>2, <1>3

LEMMA EngineFails ==
    ASSUME NEW o \in Swap, Shows(View.row, [o EXCEPT !.status = "failed"], View.sends)
    PROVE  Engine!SettleRaises("main", Id, o)
<1>1. o \in Engine!Priced(o)
  BY PricedAgain
<1>2. Engine!Fail("main", Id, o) /\ OfSwap(View'.sends) = OfSwap(View.sends)
  BY DEF Engine!Fail, Engine!SetCache, Shows, OfSwap
<1> QED
  BY <1>1, <1>2 DEF Engine!SettleRaises

LEMMA EngineRepriceFails ==
    ASSUME NEW o, o.status = "late_deposit", Shows(View.row, o, View.sends)
    PROVE  Engine!RepriceFails("main", Id, o)
BY DEF Engine!RepriceFails, Engine!SetCache, Shows, OfSwap

LEMMA EngineRests ==
    ASSUME Shows(View.row, View.cache, View.sends)
    PROVE  UNCHANGED Engine!engineVars
BY DEF Engine!engineVars, Shows, OfSwap

-----------------------------------------------------------------------------
(* The step of SwapEngine with which a call ends. *)

\* The call in progress was the only one, and the view moves on to what is there.
Ends ==
    /\ View = before
    /\ View'.touched = touched /\ View'.cleared = cleared /\ View'.due = due
    /\ confirmed' = confirmed

LEMMA CallEnds ==
    ASSUME Shape, Exclusive, ~ overlapped, NEW t \in Threads, pc[t] # "idle", Return(t),
           UNCHANGED <<confirmed, touched, cleared, due>>
    PROVE  Ends /\ Shows(row', Seen', sends')
<1>1. Busy # {} /\ Busy' = {}
  BY ReturnShape DEF Busy, Exclusive, Shape
<1> QED
  BY <1>1 DEF Ends, Shows, View, Outside, Seen

LEMMA ConfirmEnds ==
    ASSUME NEW t, NEW x \in Named(t), Confirms(t), Ends,
           Engine!ConfirmReturns("main", Id, x) \/ Engine!ConfirmRaises("main", Id, x)
    PROVE  Engine!Next
<1>1. CASE ByUser(t)
  <2>1. /\ UNCHANGED Engine!loopVars
        /\ confirmed' = confirmed /\ IfIn(View'.touched) = IfIn(View.touched)
    BY <1>1 DEF ByUser, Ends, Engine!loopVars, IfIn
  <2>2. Engine!UserConfirm(Id, x)
    BY <2>1 DEF Engine!UserConfirm
  <2>3. x \in Engine!Transactions
    BY DEF Named, Transactions, Engine!Transactions
  <2> QED
    BY <2>2, <2>3 DEF Engine!Next, Engine!UserStep
<1>2. CASE ByLoop(t, Cleaner)
  <2>1. /\ IfIn(Cleaner \in View.due) = {Id} /\ IfIn(Cleaner \in View'.due) = {}
        /\ Settler \in View'.due <=> Settler \in View.due
        /\ View'.touched = View.touched /\ confirmed' = confirmed
    BY <1>2, LoopsAreApart DEF ByLoop, Ends, IfIn
  <2>2. x = Id
    BY <1>2 DEF ByLoop, Named
  <2>3. IfIn(Settler \in View'.due) = IfIn(Settler \in View.due)
    BY <2>1 DEF IfIn
  <2>4. Engine!ScanOne(Id)
    BY <2>1, <2>2, <2>3 DEF Engine!ScanOne
  <2> QED
    BY <2>4 DEF Engine!Next, Engine!BackgroundStep
<1> QED
  BY <1>1, <1>2 DEF Confirms

\* The history and the chain are as they were when the call began.
LEMMA EnvRests ==
    ASSUME Ends, Uncleared
    PROVE  IfIn(View'.cleared) = IfIn(View.cleared) /\ confirmed' = confirmed
BY DEF Ends, Uncleared, IfIn

LEMMA SettlementEnds ==
    ASSUME NEW t, NEW o \in Swap, ToSettle(t, o), Ends,
           \/ Engine!SettleReturns("main", Id, o) \/ Engine!SettleRaises("main", Id, o)
           \/ o.status = "late_deposit" /\ Engine!RepriceFails("main", Id, o)
    PROVE  Engine!Next
<1>1. o # None
  BY ObjectsAreThere
<1>2. CASE ByAdministrator(t) /\ Uncleared /\ o = Found
  <2>1. Engine!Lookup("main", Id) = o
    BY <1>2, EngineLooksUp DEF Ends, Found
  <2>2. Engine!Touch(Id)
    BY <1>2, EnvRests DEF ByAdministrator, Ends, Engine!Touch, Engine!loopVars, IfIn
  <2>3. Engine!AdminSettle(Id)
    BY <1>1, <2>1, <2>2 DEF Engine!AdminSettle
  <2> QED
    BY <2>3 DEF Engine!Next, Engine!AdminStep
<1>3. CASE ByLoop(t, Settler) /\ Uncleared /\ o = Found
  <2>1. Engine!Lookup("main", Id) = o
    BY <1>3, EngineLooksUp DEF Ends, Found
  <2>2. /\ IfIn(Settler \in View.due) = {Id} /\ IfIn(Settler \in View'.due) = {}
        /\ Cleaner \in View'.due <=> Cleaner \in View.due
        /\ View'.touched = View.touched
    BY <1>3, LoopsAreApart DEF ByLoop, Ends, IfIn
  <2>3. /\ IfIn(Cleaner \in View'.due) = IfIn(Cleaner \in View.due)
        /\ IfIn(View'.touched) = IfIn(View.touched)
        /\ IfIn(View'.cleared) = IfIn(View.cleared) /\ confirmed' = confirmed
        /\ [w \in {"loop"} |-> IfIn(Settler \in View'.due)] =
              [[w \in {"loop"} |-> IfIn(Settler \in View.due)] EXCEPT !["loop"] = @ \ {Id}]
    BY <1>3, <2>2, EnvRests DEF IfIn
  <2>4. Engine!SweepOne("loop", Id)
    BY <1>1, <2>1, <2>2, <2>3 DEF Engine!envVars, Engine!SweepOne, Engine!ProcOf
  <2> QED
    BY <2>4 DEF Engine!Next, Engine!BackgroundStep
<1>4. CASE /\ Confirmed(t) /\ cleared = TRUE
           /\ \E x \in Named(t) : EnoughConfirmations(x)
           /\ o = [before.cache EXCEPT !.status = "processing"]
  <2>0. PICK x \in Named(t) : EnoughConfirmations(x)
    BY <1>4
  <2>1. /\ Engine!Cached("main", Id) /\ Engine!Lookup("main", Id) = before.cache
        /\ before.cache # None
    BY <1>4, EngineLooksUp DEF Confirmed, Ends
  <2>2. IfIn(View'.cleared) = IfIn(View.cleared) \cup {Id}
    BY <1>4 DEF Ends, IfIn
  <2>3. Engine!Confirmable("main", Id, before.cache, x) /\ ~ Engine!Overridden(before.cache)
    BY <1>4, <2>0, <2>1, <2>2, SameStatuses
       DEF Confirmed, EnoughConfirmations, Engine!Confirmable, Engine!EnoughConfirmations,
           Engine!Record, Engine!Overridden
  <2>4. o = Engine!InProcessing(before.cache)
    BY <1>4 DEF Engine!InProcessing
  <2>5. o.status # "late_deposit"
    BY <1>4 DEF Swap
  <2>6. Engine!ConfirmReturns("main", Id, x) \/ Engine!ConfirmRaises("main", Id, x)
    BY <2>1, <2>3, <2>4, <2>5 DEF Engine!ConfirmReturns, Engine!ConfirmRaises
  <2> QED
    BY <1>4, <2>0, <2>6, ConfirmEnds DEF Confirmed
<1> QED
  BY <1>2, <1>3, <1>4 DEF ToSettle, Settles

LEMMA NothingEnds ==
    ASSUME NEW t, Confirms(t), Uncleared, Found \in Swap, Ends,
           Shows(before.row, before.cache, before.sends),
           \/ Found.admin \in AdminFinal
           \/ Found.status \notin IF before.cache # None THEN LateWhenCached ELSE LateWhenStored
    PROVE  Engine!Next
<1>1. /\ Engine!Lookup("main", Id) = Found /\ Found # None
      /\ Engine!Cached("main", Id) <=> before.cache # None
      /\ UNCHANGED Engine!engineVars /\ IfIn(View'.cleared) = IfIn(View.cleared)
      /\ Id \in Named(t)
  BY EngineLooksUp, EngineRests, EnvRests, ObjectsAreThere DEF Ends, Found, Named, Transactions
<1>2. CASE Found.admin \in AdminFinal
  <2>1. Engine!ConfirmReturns("main", Id, Id)
    BY <1>1, <1>2, SameStatuses DEF Engine!ConfirmReturns, Engine!Overridden
  <2> QED
    BY <1>1, <2>1, ConfirmEnds
<1>3. CASE /\ Found.admin \notin AdminFinal
           /\ Found.status \notin IF before.cache # None THEN LateWhenCached ELSE LateWhenStored
  <2>1. Engine!ConfirmRaises("main", Id, Id)
    BY <1>1, <1>3, SameStatuses DEF Engine!ConfirmRaises, Engine!Overridden
  <2> QED
    BY <1>1, <2>1, ConfirmEnds
<1> QED
  BY <1>2, <1>3

\* A call that does what it was about to do.
LEMMA PlanEnds ==
    ASSUME NEW t, NEW d \in Swap, NEW c \in Swap \cup {None}, Plan(t, d, c), Found \in Swap, Ends,
           Shows(UpdateSwap(before.row, d), c, before.sends)
    PROVE  Engine!Next
<1>1. /\ Engine!Lookup("main", Id) = Found /\ Found # None
      /\ Engine!Cached("main", Id) <=> before.cache # None
      /\ Uncleared => IfIn(View'.cleared) = IfIn(View.cleared)
      /\ Id \in Named(t)
  BY EngineLooksUp, EnvRests, ObjectsAreThere DEF Ends, Found, Named, Transactions
<1>2. /\ Engine!SetCache("main", Id, c)
      /\ Engine!Persist(Id, Engine!UpdateSwap(OfSwap(View.row)[Id], d))
      /\ OfSwap(View'.sends) = OfSwap(View.sends)
  BY EngineWrites DEF Ends, Shows
<1>3. CASE LatePlan(t, d, c)
  <2>1. Engine!LateDeposit("main", Id, Found)
    BY <1>1, <1>2, <1>3, SameStatuses DEF LatePlan, Engine!LateDeposit
  <2>2. Engine!ConfirmReturns("main", Id, Id)
    BY <1>1, <1>3, <2>1, SameStatuses DEF LatePlan, Engine!ConfirmReturns, Engine!Overridden
  <2> QED
    BY <1>1, <1>3, <2>2, ConfirmEnds DEF LatePlan
<1>4. CASE AwaitPlan(t, d, c)
  <2>1. Found = before.cache
    BY <1>4 DEF AwaitPlan, Confirmed, Found
  <2>2. Engine!AwaitConfirmations("main", Id, Found)
    BY <1>1, <1>2, <1>4, <2>1, SameStatuses DEF AwaitPlan, Confirmed, Engine!AwaitConfirmations
  <2>3. Engine!ConfirmReturns("main", Id, Id)
    BY <1>1, <1>4, <2>1, <2>2, SameStatuses
       DEF AwaitPlan, Confirmed, Engine!ConfirmReturns, Engine!Overridden
  <2> QED
    BY <1>1, <1>4, <2>3, ConfirmEnds DEF AwaitPlan, Confirmed
<1>5. CASE DelayPlan(t, d, c)
  <2>1. PICK o \in Swap : ToSettle(t, o) /\ d = [o EXCEPT !.status = "delayed"] /\ c = d
    BY <1>5 DEF DelayPlan
  <2>2. Engine!SettleReturns("main", Id, o)
    BY <2>1, EngineSettles DEF Ends
  <2> QED
    BY <2>1, <2>2, SettlementEnds
<1>6. CASE CancelPlan(t, d, c)
  <2>1. UNCHANGED Engine!loopVars /\ UNCHANGED Engine!envVars
    BY <1>1, <1>6 DEF CancelPlan, ByUser, Ends, Engine!loopVars, Engine!envVars, IfIn
  <2>2. Engine!CancelSwap(Id)
    BY <1>1, <1>2, <1>6, <2>1 DEF CancelPlan, Engine!CancelSwap
  <2> QED
    BY <2>2 DEF Engine!Next, Engine!UserStep
<1>7. CASE SetPlan(t, d, c)
  <2>1. PICK st \in AdminTargets :
            /\ d = [Found EXCEPT !.status = st, !.admin = st]
            /\ c = IF before.cache # None /\ st \notin DroppedOnSet THEN d ELSE None
    BY <1>7 DEF SetPlan
  <2>2. Engine!Touch(Id)
    BY <1>1, <1>7 DEF SetPlan, ByAdministrator, Ends, Engine!Touch, Engine!loopVars, IfIn
  <2>3. Engine!SetSwapStatus(Id, st)
    BY <1>1, <1>2, <2>1, <2>2, SameStatuses DEF Engine!SetSwapStatus
  <2> QED
    BY <2>3 DEF Engine!Next, Engine!AdminStep
<1> QED
  BY <1>3, <1>4, <1>5, <1>6, <1>7 DEF Plan

LEMMA PaymentEnds ==
    ASSUME NEW t, NEW o \in Swap, ToSettle(t, o), Ends, before.sends < MaxSends,
           Shows(CompleteSwap(before.row), None, before.sends + 1)
    PROVE  Engine!Next
<1>1. Engine!SettleReturns("main", Id, o)
  BY EngineSettles DEF Ends
<1> QED
  BY <1>1, SettlementEnds

LEMMA ExpiryEnds ==
    ASSUME Ends, touched = before.touched, Uncleared, due = before.due, before.row \in Row,
           before.row.col \in Expirable, before.row.data.status \in Expirable,
           Shows([col |-> "timed_out", data |-> [before.row.data EXCEPT !.status = "timed_out"]],
                 None, before.sends)
    PROVE  Engine!Next
<1>1. UNCHANGED Engine!loopVars /\ UNCHANGED Engine!envVars
  BY EnvRests DEF Ends, Engine!loopVars, Engine!envVars, IfIn
<1>2. /\ OfSwap(View.row)[Id] = before.row /\ before.row # None
      /\ OfSwap(View'.sends) = OfSwap(View.sends)
  BY ObjectsAreThere DEF Ends, OfSwap, Shows
<1> DEFINE over == {s \in {Id} : /\ OfSwap(View.row)[s] # None
                                 /\ OfSwap(View.row)[s].col \in Engine!Expirable
                                 /\ OfSwap(View.row)[s].data.status \in Engine!Expirable}
<1>3. over = {Id}
  BY <1>2, SameStatuses
<1>4. OfSwap(View'.row) = [s \in {Id} |->
          IF s \in over
          THEN [col |-> "timed_out", data |-> [OfSwap(View.row)[s].data EXCEPT !.status = "timed_out"]]
          ELSE OfSwap(View.row)[s]]
  BY <1>2, <1>3 DEF Shows, Ends, OfSwap
<1>5. [p \in {"main"} |-> OfSwap(View'.cache)] =
          [[p \in {"main"} |-> OfSwap(View.cache)] EXCEPT !["main"] =
              [s \in {Id} |-> IF s \in over THEN None ELSE @[s]]]
  BY <1>3 DEF Shows, OfSwap
<1>6. Engine!ExpireSwaps({Id})
  BY <1>1, <1>2, <1>3, <1>4, <1>5 DEF Engine!ExpireSwaps
<1> QED
  BY <1>6 DEF Engine!Next, Engine!BackgroundStep

-----------------------------------------------------------------------------
(* The steps of a call keep it on track. *)

\* A call that has begun keeps its caller and its view.
LEMMA Keeps ==
    ASSUME UNCHANGED <<touched, cleared, due, before>>, confirmed \subseteq confirmed'
    PROVE  /\ Found' = Found
           /\ \A t : /\ ByUser(t) => ByUser(t)'
                     /\ ByAdministrator(t) => ByAdministrator(t)'
                     /\ Confirms(t) => Confirms(t)'
                     /\ Confirmed(t) => Confirmed(t)'
           /\ Uncleared => Uncleared'
           /\ \A t, o : ToSettle(t, o) => ToSettle(t, o)'
           /\ \A t, d, c : Plan(t, d, c) => Plan(t, d, c)'
<1>1. Found' = Found
  BY DEF Found
<1>2. \A t : /\ ByUser(t) => ByUser(t)'
             /\ ByAdministrator(t) => ByAdministrator(t)'
             /\ \A l : ByLoop(t, l) => ByLoop(t, l)'
  BY DEF ByUser, ByAdministrator, ByLoop
<1>3. \A t : /\ Confirms(t) => Confirms(t)'
             /\ Settles(t) => Settles(t)'
             /\ Confirmed(t) => Confirmed(t)'
  BY <1>2 DEF Confirms, Settles, Confirmed
<1>4. \A t, o : ToSettle(t, o) => ToSettle(t, o)'
  <2>1. \A t, x : x \in Named(t) /\ EnoughConfirmations(x) =>
                     x \in Named(t)' /\ EnoughConfirmations(x)'
    BY DEF Named, EnoughConfirmations
  <2> QED
    BY <1>1, <1>3, <2>1 DEF ToSettle, Uncleared
<1>5. \A t, d, c : Plan(t, d, c) => Plan(t, d, c)'
  <2>1. \A t, d, c : /\ LatePlan(t, d, c) => LatePlan(t, d, c)'
                     /\ AwaitPlan(t, d, c) => AwaitPlan(t, d, c)'
    BY <1>1, <1>3 DEF LatePlan, AwaitPlan, Uncleared
  <2>2. \A t, d, c : /\ CancelPlan(t, d, c) => CancelPlan(t, d, c)'
                     /\ SetPlan(t, d, c) => SetPlan(t, d, c)'
    BY <1>1, <1>2 DEF CancelPlan, SetPlan, Uncleared
  <2>3. \A t, d, c : DelayPlan(t, d, c) => DelayPlan(t, d, c)'
    BY <1>4 DEF DelayPlan
  <2> QED
    BY <2>1, <2>2, <2>3 DEF Plan
<1> QED
  BY <1>1, <1>2, <1>3, <1>4, <1>5 DEF Uncleared

\* The view is kept while the call is in progress.
LEMMA KeepsBefore ==
    ASSUME NEW t \in Threads, Keep, pc'[t] # "idle"
    PROVE  before' = before
BY DEF Keep, Busy

LEMMA KeepsRecalled ==
    ASSUME Recalled, UNCHANGED <<row, before>>
    PROVE  Recalled'
BY DEF Recalled

LEMMA TrackLookup ==
    ASSUME Shape, NEW t \in Threads, Track(t), Lookup(t)
    PROVE  Track(t)'
<1>1. /\ pc[t] = "lookup" /\ LooksUp(t) /\ Recalled /\ sends = before.sends
      /\ UNCHANGED <<row, cached, sends, confirmed, touched, cleared, due, op, before>>
      /\ ref'[t] = cached /\ pc'[t] = (IF cached = NoObject THEN "read" ELSE "found")
  BY DEF Track, InPlace, Lookup, At, Keep, Busy, Shape, TypeOK
<1>2. cached # NoObject => heap'[cached] = heap[cached] /\ heap[cached] # None
  BY <1>1, HeapStep DEF Lookup, Shape, TypeOK, CacheShape
<1>3. Seen' = Seen /\ Latest' = Latest
  BY <1>1, <1>2 DEF Seen, Latest
<1>4. Reads(t) => Reads(t)'
  BY <1>1, Keeps DEF Reads
<1>5. \A o : ToSettle(t, o) => ToSettle(t, o)'
  BY <1>1, Keeps
<1>6. CASE cached = NoObject
  <2>1. LooksUp(t)'
    BY <1>1, <1>3, <1>4, <1>5 DEF LooksUp
  <2> QED
    BY <1>1, <1>6, <2>1, KeepsRecalled DEF Track, InPlace
<1>7. CASE cached # NoObject
  <2>1. Object(t)' = heap[cached] /\ Latest = heap[cached] /\ Seen = heap[cached]
    BY <1>1, <1>2, <1>7 DEF Object, Latest, Seen
  <2>2. Seen = before.cache => Found = heap[cached] /\ Found' = Found
    BY <1>1, <1>2, <1>7, <2>1, Keeps DEF Found
  <2>3. HasFound(t)'
    BY <1>1, <1>3, <1>4, <1>5, <2>1, <2>2 DEF LooksUp, HasFound
  <2> QED
    BY <1>1, <1>7, <2>3, KeepsRecalled DEF Track, InPlace
<1> QED
  BY <1>6, <1>7

LEMMA TrackRead ==
    ASSUME Shape, NEW t \in Threads, Track(t), Read(t)
    PROVE  Track(t)'
<1> DEFINE h == [heap EXCEPT ![Unused] = GetSwap(row)]
<1>1. /\ pc[t] = "read" /\ LooksUp(t) /\ cached = NoObject /\ Recalled /\ sends = before.sends
      /\ UNCHANGED <<row, sends, confirmed, touched, cleared, due, op, before>>
      /\ ref'[t] = Unused /\ pc'[t] = "found"
      /\ cached' = IF op[t] = "settle" THEN Unused ELSE NoObject
  BY DEF Track, InPlace, Read, At, Keep, Busy, Shape, TypeOK
<1>2. h \in [Objects -> Swap \cup {None}] /\ Heap(h) /\ Unused \in Objects /\ h[Unused] = GetSwap(row)
  BY ReadObject DEF Read, Shape, TypeOK
<1> HIDE DEF h
<1>3. heap'[Unused] = GetSwap(row)
  BY <1>1, <1>2, HeapStep
<1>4. Object(t)' = GetSwap(row) /\ Latest = GetSwap(row) /\ Seen = None
  BY <1>1, <1>3 DEF Object, Latest, Seen
<1>5. CASE op[t] = "settle"
  <2>1. \E o \in Swap : o = Object(t)' /\ ToSettle(t, o)
    BY <1>1, <1>4, <1>5, NoTargets DEF LooksUp, Reads
  <2>2. HasFound(t)'
    BY <1>1, <1>5, <2>1, Keeps DEF HasFound
  <2> QED
    BY <1>1, <2>2, KeepsRecalled DEF Track, InPlace
<1>6. CASE op[t] # "settle"
  <2>1. Reads(t) /\ before.cache = None /\ cached' = NoObject
    BY <1>1, <1>4, <1>6 DEF LooksUp
  <2>2. Reads(t)' /\ Seen' = before.cache /\ Found' = GetSwap(row)
    BY <1>1, <2>1, Keeps DEF Reads, Seen, Found, Recalled
  <2>3. HasFound(t)'
    BY <1>1, <1>4, <2>1, <2>2 DEF HasFound
  <2> QED
    BY <1>1, <2>3, KeepsRecalled DEF Track, InPlace
<1> QED
  BY <1>5, <1>6

LEMMA FoundIsSwap ==
    ASSUME Shape, NEW t \in Threads, pc[t] # "idle", Recalled
    PROVE  row \in Row /\ before.row \in Row /\ Found \in Swap
<1>1. row \in Row
  BY DEF Shape, TypeOK, CallShape
<1>2. AdminColumn(row) \in AdminMarks
  BY <1>1 DEF AdminColumn, Row, Swap, AdminMarks
<1>3. GetSwap(row) \in Swap
  BY <1>1, <1>2, ObjectsAreThere DEF GetSwap, Row, Swap
<1> QED
  BY <1>1, <1>3 DEF Recalled, Found

\* A call that returns without having written anything.
LEMMA ReturnsQuietly ==
    ASSUME Shape, Exclusive, ~ overlapped, NEW t \in Threads, pc[t] # "idle", Return(t), Heap(heap),
           UNCHANGED <<row, cached, sends, confirmed, touched, cleared, due>>
    PROVE  Ends /\ Shows(row, Seen, sends)
<1>1. Seen' = Seen
  BY HeapStep DEF Seen, Shape, TypeOK
<1> QED
  BY <1>1, CallEnds

LEMMA RouteStep ==
    ASSUME Shape, Exclusive, ~ overlapped, NEW t \in Threads, Track(t), Route(t)
    PROVE  /\ pc'[t] # "idle" => Track(t)'
           /\ pc'[t] = "idle" => Engine!Next
<1>1. /\ pc[t] = "found" /\ op[t] = "confirm" /\ HasFound(t) /\ Recalled /\ sends = before.sends
      /\ UNCHANGED <<row, cached, sends, confirmed, touched, cleared, due>>
      /\ Heap(heap)
      /\ pc'[t] # "idle" => before' = before
  BY KeepsBefore DEF Track, InPlace, Route, At
<1>2. /\ Confirms(t) /\ Uncleared /\ Seen = before.cache /\ Object(t) = Found
      /\ cached # NoObject => ref[t] = cached
  BY <1>1, NoTargets DEF HasFound, Reads
<1>3. /\ Found \in Swap /\ row = before.row
      /\ cached # NoObject <=> before.cache # None
      /\ cached # NoObject => Found = before.cache
  BY <1>1, <1>2, FoundIsSwap DEF Seen, Shape, CacheShape, Found, Recalled
<1>4. Return(t) \/ (ref[t] \in Objects /\ heap'[ref[t]] = heap[ref[t]])
  BY <1>1, HeldObject, HeapStep DEF Route, Goto, Holding, Shape, TypeOK
<1>5. CASE Return(t)
  <2>1. Ends /\ Shows(before.row, before.cache, before.sends)
    BY <1>1, <1>2, <1>3, <1>5, ReturnsQuietly
  <2>2. \/ Found.admin \in AdminFinal
        \/ Found.status \notin IF before.cache # None THEN LateWhenCached ELSE LateWhenStored
    <3>1. pc'[t] = "idle"
      BY <1>5, ReturnShape DEF Shape
    <3>2. \A place \in {"late_stored", "late_cached", "confirmations"} : ~ Goto(t, place)
      BY <3>1 DEF Goto, Shape, TypeOK
    <3> QED
      BY <1>2, <1>3, <3>2 DEF Route, Overridden
  <2>3. Engine!Next
    BY <1>2, <1>3, <2>1, <2>2, NothingEnds
  <2> QED
    BY <1>5, <2>3, ReturnShape DEF Shape
<1>6. CASE ~ Return(t)
  <2>1. PICK place \in {"late_stored", "late_cached", "confirmations"} :
            /\ Goto(t, place) /\ pc'[t] = place /\ Found.admin \notin AdminFinal
            /\ place = "late_stored" =>
                  cached = NoObject /\ Found.status \in LateWhenStored
            /\ place = "late_cached" =>
                  cached # NoObject /\ Found.status \in LateWhenCached
            /\ place = "confirmations" =>
                  cached # NoObject /\ Found.status \in Unconfirmed
    BY <1>2, <1>6 DEF Route, Overridden, Goto, Shape, TypeOK
  <2>2. pc'[t] = place /\ UNCHANGED <<op, ref>> /\ Object(t)' = Found /\ Found' = Found
    BY <1>1, <1>2, <1>4, <1>6, <2>1, Keeps DEF Goto, Object, Shape, TypeOK
  <2>3. Confirms(t)' /\ Uncleared' /\ (Confirmed(t) => Confirmed(t)')
    BY <1>1, <1>2, <2>1, Keeps
  <2>4. CASE place \in {"late_stored", "late_cached"}
    <3>1. IsLate(t)'
      BY <1>1, <1>3, <2>1, <2>2, <2>3, <2>4 DEF IsLate
    <3> QED
      BY <1>1, <2>2, <2>4, <3>1, KeepsRecalled DEF Track, InPlace
  <2>5. CASE place = "confirmations"
    <3>1. Confirmed(t) /\ Found = before.cache /\ ref[t] = cached
      BY <1>2, <1>3, <2>1, <2>5 DEF Confirmed
    <3>2. AsksWallet(t)'
      BY <1>1, <2>2, <2>3, <3>1 DEF AsksWallet
    <3> QED
      BY <1>1, <2>2, <2>5, <3>2, KeepsRecalled DEF Track, InPlace
  <2> QED
    BY <2>1, <2>2, <2>4, <2>5
<1> QED
  BY <1>5, <1>6

LEMMA LateStep ==
    ASSUME Shape, NEW t \in Threads, Track(t), Late(t)
    PROVE  Track(t)'
<1>1. /\ pc[t] \in {"late_stored", "late_cached"} /\ IsLate(t) /\ Recalled
      /\ sends = before.sends
      /\ UNCHANGED <<row, cached, sends, confirmed, touched, cleared, due, ref, before>>
      /\ pc'[t] = "update" /\ op'[t] = (IF pc[t] = "late_cached" THEN "drop" ELSE "confirm")
      /\ Heap(SetStatus(t, "late_deposit"))
  BY DEF Track, InPlace, IsLate, Late, At, Keep, Busy, Shape, TypeOK
<1>2. pc[t] \in Holding /\ "late_deposit" \in SwapStatuses
  BY <1>1 DEF Holding, SwapStatuses
<1>3. /\ Object(t) = Found /\ Found \in Swap
      /\ Object(t)' = [Found EXCEPT !.status = "late_deposit"]
  BY <1>1, <1>2, HeldObject, HeapStep DEF IsLate, Object
<1>4. Object(t)' \in Swap
  BY <1>2, <1>3 DEF Swap
<1>5. After(t)' = None
  BY <1>1 DEF IsLate, After, Seen
<1>6. LatePlan(t, Object(t)', None)
  BY <1>1, <1>3 DEF IsLate, LatePlan
<1>7. \A d, c : Plan(t, d, c) => Plan(t, d, c)'
  BY <1>1, Keeps
<1>8. WillUpdate(t)'
  <2>1. \E d \in Swap : d = Object(t)' /\ Plan(t, d, None)'
    BY <1>4, <1>6, <1>7 DEF Plan
  <2> QED
    BY <1>5, <2>1 DEF WillUpdate
<1> QED
  BY <1>1, <1>8, KeepsRecalled DEF Track, InPlace

\* A call that goes on to write the object it has just set the status of, and that
\* the cache shows as c.
LEMMA GoesToUpdate ==
    ASSUME Recalled, sends = before.sends, NEW t \in Threads,
           UNCHANGED <<row, sends, confirmed, touched, cleared, due, before>>, pc'[t] = "update",
           NEW d \in Swap, NEW c \in Swap \cup {None}, Plan(t, d, c),
           Object(t)' = d, After(t)' = c
    PROVE  Track(t)'
<1>1. Plan(t, d, c)'
  BY Keeps
<1>2. WillUpdate(t)'
  BY <1>1 DEF WillUpdate
<1> QED
  BY <1>2, KeepsRecalled DEF Track, InPlace

LEMMA ConfirmationsStep ==
    ASSUME Shape, Exclusive, ~ overlapped, NEW t \in Threads, Track(t), Confirmations(t)
    PROVE  /\ pc'[t] # "idle" => Track(t)'
           /\ pc'[t] = "idle" => Engine!Next
<1>1. /\ pc[t] = "confirmations" /\ AsksWallet(t) /\ Recalled /\ sends = before.sends
      /\ UNCHANGED <<row, cached, sends, confirmed, touched, due>>
      /\ pc'[t] # "idle" => before' = before
  BY KeepsBefore DEF Track, InPlace, Confirmations, At
<1>2. /\ op[t] = "confirm" /\ Confirmed(t) /\ Uncleared /\ ref[t] = cached /\ Object(t) = before.cache
      /\ cached \in Objects /\ Object(t) \in Swap
      /\ {"awaiting_deposit", "processing"} \subseteq SwapStatuses
  BY <1>1, HeldObject DEF AsksWallet, Holding, SwapStatuses
<1>3. CASE /\ Required # {0}
           /\ Goto(t, "update")
           /\ UNCHANGED cleared
           /\ Heap(SetStatus(t, "awaiting_deposit"))
  <2> DEFINE d == [before.cache EXCEPT !.status = "awaiting_deposit"]
  <2>1. pc'[t] = "update" /\ UNCHANGED <<op, ref, before>>
    BY <1>1, <1>3 DEF Goto, Shape, TypeOK
  <2>2. heap'[cached] = d
    BY <1>1, <1>2, <1>3, HeldObject, HeapStep DEF Holding
  <2>3. d \in Swap
    BY <1>2 DEF Swap
  <2>4. Object(t)' = d /\ After(t)' = d
    BY <1>1, <1>2, <2>1, <2>2, ObjectsAreThere DEF Object, After, Seen
  <2>5. Plan(t, d, d)
    BY <1>2, <1>3 DEF AwaitPlan, Plan
  <2> HIDE DEF d
  <2> QED
    BY <1>1, <1>3, <2>1, <2>3, <2>4, <2>5, GoesToUpdate
<1>4. CASE /\ \E x \in Named(t) : EnoughConfirmations(x) /\ Record(x)
           /\ op' = [op EXCEPT ![t] = "settle"]
           /\ pc' = [pc EXCEPT ![t] = "lookup"]
           /\ Heap(SetStatus(t, "processing"))
  <2>1. PICK o \in Swap : o = [before.cache EXCEPT !.status = "processing"]
    BY <1>2 DEF Swap
  <2>2. Latest' = o
    BY <1>1, <1>2, <1>4, <2>1, HeldObject, HeapStep, ObjectsAreThere DEF Latest, Holding
  <2>3. op'[t] = "settle" /\ pc'[t] = "lookup" /\ before' = before
    BY <1>1, <1>4 DEF Shape, TypeOK
  <2>4. Confirmed(t)'
    BY <1>1, <1>2, <2>3 DEF Confirmed, Confirms, ByUser, ByLoop
  <2>5. cleared' = TRUE /\ (\E x \in Named(t) : EnoughConfirmations(x))'
    BY <1>1, <1>4 DEF EnoughConfirmations, Record, Named
  <2>6. ToSettle(t, o)'
    BY <2>1, <2>3, <2>4, <2>5 DEF ToSettle
  <2>7. LooksUp(t)'
    BY <2>2, <2>3, <2>6 DEF LooksUp
  <2> QED
    BY <1>1, <2>3, <2>7, KeepsRecalled DEF Track, InPlace, Recalled
<1>5. CASE Return(t) /\ UNCHANGED cleared /\ Heap(heap)
  <2>1. Seen = before.cache /\ Found = before.cache /\ before.row = row
    BY <1>1, <1>2, ObjectsAreThere DEF Seen, Object, Found, Confirmed, Recalled
  <2>2. Ends /\ Shows(before.row, before.cache, before.sends)
    BY <1>1, <1>5, <2>1, ReturnsQuietly
  <2>3. Found.status \notin LateWhenCached /\ before.cache # None /\ Confirms(t)
    BY <1>2, <2>1 DEF Confirmed, Unconfirmed, LateWhenCached
  <2>4. Engine!Next
    BY <1>2, <2>1, <2>2, <2>3, NothingEnds
  <2> QED
    BY <1>5, <2>4, ReturnShape DEF Shape
<1> QED
  BY <1>3, <1>4, <1>5 DEF Confirmations

LEMMA SettleStep ==
    ASSUME Shape, Exclusive, ~ overlapped, NEW t \in Threads, Track(t),
           RepriceFails(t) \/ Pay(t) \/ Delay(t) \/ Fail(t)
    PROVE  /\ pc'[t] # "idle" => Track(t)'
           /\ pc'[t] = "idle" => Engine!Next
<1>1. /\ pc[t] = "found" /\ op[t] = "settle" /\ HasFound(t) /\ Recalled /\ sends = before.sends
      /\ UNCHANGED <<row, cached, confirmed, touched, cleared, due>>
      /\ pc'[t] # "idle" => before' = before
  BY KeepsBefore
  DEF Track, InPlace, RepriceFails, Pay, Delay, DelayTo, Fail, Settling, Elsewhere, At
<1>2. PICK o \in Swap : o = Object(t) /\ ToSettle(t, o)
  BY <1>1, NoTargets DEF HasFound, Reads
<1>3. /\ ref[t] = cached /\ cached \in Objects /\ pc[t] \in Holding /\ Seen = o
      /\ row = before.row
      /\ {"delayed", "failed"} \subseteq SwapStatuses
  <2>1. ref[t] = cached /\ pc[t] \in Holding
    BY <1>1, NoTargets DEF HasFound, Reads, Holding
  <2>2. cached \in Objects
    BY <2>1, HeldObject
  <2> QED
    BY <1>1, <1>2, <2>1, <2>2, ObjectsAreThere DEF Seen, Object, Recalled, SwapStatuses
<1>4. CASE RepriceFails(t)
  <2>1. Ends /\ Shows(row, o, sends)
    BY <1>1, <1>3, <1>4, ReturnsQuietly DEF RepriceFails, Elsewhere
  <2>2. Engine!RepriceFails("main", Id, o) /\ o.status = "late_deposit"
    BY <1>1, <1>2, <1>3, <1>4, <2>1, EngineRepriceFails DEF RepriceFails, Ends
  <2>3. Engine!Next
    BY <1>2, <2>1, <2>2, SettlementEnds
  <2> QED
    BY <1>4, <2>3, ReturnShape DEF RepriceFails, Shape
<1>5. CASE Pay(t)
  <2>1. pc'[t] = "sent" /\ op'[t] = "settle" /\ before' = before /\ sends' = before'.sends + 1
    BY <1>1, <1>5 DEF Pay, Goto, Shape, TypeOK
  <2>2. HasPaid(t)'
    BY <1>1, <1>2, <2>1, Keeps DEF HasPaid
  <2> QED
    BY <1>1, <2>1, <2>2, KeepsRecalled DEF Track, InPlace
<1>6. CASE Delay(t)
  <2> DEFINE d == [o EXCEPT !.status = "delayed"]
  <2>1. pc'[t] = "update" /\ UNCHANGED <<op, ref, sends, before>>
    BY <1>1, <1>6 DEF Delay, DelayTo, Goto, Shape, TypeOK
  <2>2. heap'[cached] = d
    BY <1>1, <1>2, <1>3, <1>6, HeldObject, HeapStep DEF Delay, DelayTo
  <2>3. d \in Swap
    BY <1>3 DEF Swap
  <2>4. Object(t)' = d /\ After(t)' = d
    BY <1>1, <1>3, <2>1, <2>2, ObjectsAreThere DEF Object, After, Seen
  <2>5. Plan(t, d, d)
    BY <1>2 DEF DelayPlan, Plan
  <2> HIDE DEF d
  <2> QED
    BY <1>1, <2>1, <2>3, <2>4, <2>5, GoesToUpdate
<1>7. CASE Fail(t)
  <2>1. heap'[cached] = [o EXCEPT !.status = "failed"]
    BY <1>1, <1>2, <1>3, <1>7, HeldObject, HeapStep DEF Fail
  <2>2. Ends /\ Shows(row, [o EXCEPT !.status = "failed"], sends)
    BY <1>1, <1>3, <1>7, <2>1, CallEnds, ObjectsAreThere DEF Fail, Elsewhere, Seen
  <2>3. Engine!SettleRaises("main", Id, o)
    BY <1>1, <1>3, <2>2, EngineFails DEF Ends
  <2>4. Engine!Next
    BY <1>2, <2>2, <2>3, SettlementEnds
  <2> QED
    BY <1>7, <2>4, ReturnShape DEF Fail, Shape
<1> QED
  BY <1>4, <1>5, <1>6, <1>7

LEMMA AnsweredStep ==
    ASSUME Shape, NEW t \in Threads, Track(t), Answered(t)
    PROVE  Track(t)'
<1>1. /\ pc[t] = "sent" /\ op[t] = "settle" /\ HasPaid(t) /\ Recalled
      /\ UNCHANGED <<row, sends, confirmed, touched, cleared, due, op, before>>
      /\ cached' = NoObject /\ pc'[t] = "complete"
  BY DEF Track, InPlace, Answered, Elsewhere, Goto, At, Keep, Busy, Shape, TypeOK
<1>2. HasPaid(t)'
  BY <1>1, Keeps DEF HasPaid
<1> QED
  BY <1>1, <1>2, KeepsRecalled DEF Track, InPlace

LEMMA CancelStep ==
    ASSUME Shape, Exclusive, ~ overlapped, NEW t \in Threads, Track(t), Cancel(t)
    PROVE  /\ pc'[t] # "idle" => Track(t)'
           /\ pc'[t] = "idle" => Engine!Next \/ UNCHANGED Engine!vars
<1>1. /\ pc[t] = "found" /\ op[t] = "cancel" /\ HasFound(t) /\ Recalled /\ sends = before.sends
      /\ UNCHANGED <<row, sends, confirmed, touched, cleared, due>>
      /\ pc'[t] # "idle" => before' = before
  BY KeepsBefore DEF Track, InPlace, Cancel, At
<1>2. /\ ByUser(t) /\ Uncleared /\ Seen = before.cache /\ Object(t) = Found /\ Found \in Swap
      /\ pc[t] \in Holding /\ row = before.row
  BY <1>1, NoTargets, FoundIsSwap DEF HasFound, Reads, Holding, Recalled
<1>3. CASE Return(t) /\ UNCHANGED cached /\ Heap(heap)
  <2>1. Ends /\ Shows(before.row, before.cache, before.sends)
    BY <1>1, <1>2, <1>3, ReturnsQuietly
  <2>2. UNCHANGED Engine!engineVars
    BY <2>1, EngineRests DEF Ends
  <2>3. UNCHANGED Engine!loopVars /\ UNCHANGED Engine!envVars
    BY <1>2, <2>1, EnvRests DEF ByUser, Ends, Engine!loopVars, Engine!envVars, IfIn
  <2> QED
    BY <1>3, <2>2, <2>3, ReturnShape DEF Engine!vars, Shape
<1>4. CASE /\ Object(t).status \notin {"completed", "failed"}
           /\ cached' = NoObject /\ Goto(t, "update") /\ Heap(SetStatus(t, "cancelled"))
  <2> DEFINE d == [Found EXCEPT !.status = "cancelled"]
  <2>1. pc'[t] = "update" /\ UNCHANGED <<op, ref, before>>
    BY <1>1, <1>4 DEF Goto, Shape, TypeOK
  <2>2. "cancelled" \in SwapStatuses
    BY DEF SwapStatuses
  <2>3. Object(t)' = d
    BY <1>2, <1>4, <2>1, <2>2, HeldObject, HeapStep DEF Object
  <2>4. d \in Swap /\ After(t)' = None
    BY <1>2, <1>4, <2>2 DEF Swap, After, Seen
  <2>5. Plan(t, d, None)
    BY <1>2, <1>4 DEF CancelPlan, Plan
  <2> HIDE DEF d
  <2> QED
    BY <1>1, <2>1, <2>3, <2>4, <2>5, GoesToUpdate
<1> QED
  BY <1>1, <1>3, <1>4 DEF Cancel

LEMMA SetStep ==
    ASSUME Shape, NEW t \in Threads, Track(t), SetSwapStatus(t)
    PROVE  Track(t)'
<1> DEFINE h == [heap EXCEPT ![ref[t]].status = op[t], ![ref[t]].admin = op[t]]
           d == [Found EXCEPT !.status = op[t], !.admin = op[t]]
           c == IF before.cache # None /\ op[t] \notin DroppedOnSet THEN d ELSE None
<1>1. /\ pc[t] = "found" /\ op[t] \in AdminTargets /\ HasFound(t) /\ Recalled
      /\ sends = before.sends
      /\ UNCHANGED <<row, sends, confirmed, touched, cleared, due>>
      /\ Keep
      /\ cached' = IF op[t] \in DroppedOnSet THEN NoObject ELSE cached
      /\ Goto(t, "update") /\ Heap(h)
  BY DEF Track, InPlace, SetSwapStatus, At
<1>2. /\ ByAdministrator(t) /\ Uncleared /\ Seen = before.cache /\ Object(t) = Found
      /\ cached # NoObject => ref[t] = cached
  BY <1>1, NoTargets DEF HasFound, Reads
<1>3. Found \in Swap /\ pc[t] \in Holding /\ ref[t] \in Objects
  BY <1>1, FoundIsSwap, HeldObject DEF Holding
<1>4. pc'[t] = "update" /\ UNCHANGED <<op, ref, before>>
  BY <1>1, KeepsBefore DEF Goto, Shape, TypeOK
<1>5. h \in [Objects -> Swap \cup {None}] /\ h[ref[t]] \in Swap
  BY <1>1, <1>3, SetByAdmin
<1>6. h[ref[t]] = d
  BY <1>2, <1>3 DEF Object, Shape, TypeOK
<1>7. heap'[ref[t]] = d
  <2> HIDE DEF h, d
  <2> QED
    BY <1>1, <1>3, <1>4, <1>5, <1>6, HeapStep
<1>8. d \in Swap
  BY <1>5, <1>6
<1>9. Object(t)' = d
  BY <1>4, <1>7 DEF Object
<1>10. After(t)' = c
  <2>1. op'[t] # "drop" /\ (cached # NoObject <=> before.cache # None)
    BY <1>1, <1>2, <1>4, NoTargets DEF Seen, Shape, CacheShape
  <2>2. cached' # NoObject => heap'[cached'] = d
    BY <1>1, <1>2, <1>7
  <2> HIDE DEF d
  <2> QED
    BY <1>1, <2>1, <2>2 DEF After, Seen
<1>11. Plan(t, d, c)
  BY <1>1, <1>2 DEF SetPlan, Plan
<1> HIDE DEF h, d
<1> QED
  BY <1>1, <1>4, <1>8, <1>9, <1>10, <1>11, GoesToUpdate

LEMMA TableStep ==
    ASSUME Shape, NEW t \in Threads, Track(t), Update(t) \/ Complete(t)
    PROVE  Track(t)'
<1>1. /\ Recalled /\ pc'[t] = "write"
      /\ UNCHANGED <<row, heap, cached, sends, confirmed, touched, cleared, due, op, ref, before>>
  BY DEF Track, Update, Complete, Keep, Busy, Shape, TypeOK
<1>2. After(t)' = After(t) /\ row = before.row
  BY <1>1 DEF After, Seen, Recalled
<1>3. CASE Update(t)
  <2>1. pc[t] = "update" /\ WillUpdate(t) /\ sends = before.sends
    BY <1>3 DEF Update, At, Track, InPlace
  <2>2. PICK d \in Swap, c \in Swap \cup {None} : d = Object(t) /\ c = After(t) /\ Plan(t, d, c)
    BY <2>1 DEF WillUpdate
  <2>3. out'[t] = UpdateSwap(before'.row, d)
    BY <1>1, <1>2, <1>3, <2>2 DEF Update, Shape, TypeOK
  <2>4. Plan(t, d, c)' /\ c = After(t)'
    BY <1>1, <1>2, <2>2, Keeps
  <2>5. WillWrite(t)'
    BY <1>1, <2>1, <2>3, <2>4 DEF WillWrite
  <2> QED
    BY <1>1, <2>5, KeepsRecalled DEF Track, InPlace
<1>4. CASE Complete(t)
  <2>1. pc[t] = "complete" /\ HasPaid(t) /\ cached = NoObject
    BY <1>4 DEF Complete, At, Track, InPlace
  <2>2. out'[t] = CompleteSwap(before'.row)
    BY <1>1, <1>2, <1>4 DEF Complete, Shape, TypeOK
  <2>3. HasPaid(t)' /\ After(t)' = None
    BY <1>1, <2>1, Keeps DEF HasPaid, After, Seen
  <2>4. WillWrite(t)'
    BY <2>2, <2>3 DEF WillWrite
  <2> QED
    BY <1>1, <2>4, KeepsRecalled DEF Track, InPlace
<1> QED
  BY <1>3, <1>4

LEMMA WriteStep ==
    ASSUME Shape, Exclusive, ~ overlapped, NEW t \in Threads, Track(t), Write(t)
    PROVE  pc'[t] = "idle" /\ Engine!Next
<1>1. /\ pc[t] = "write" /\ WillWrite(t) /\ Recalled /\ row' = out[t]
      /\ UNCHANGED <<sends, confirmed, touched, cleared, due>> /\ Return(t) /\ Heap(heap)
      /\ cached' = IF op[t] = "drop" THEN NoObject ELSE cached
  BY DEF Track, InPlace, Write, At
<1>2. pc'[t] = "idle" /\ Found \in Swap /\ sends \in 0..MaxSends /\ before.sends \in 0..MaxSends
  BY <1>1, ReturnShape, FoundIsSwap DEF Recalled, Shape, TypeOK
<1>3. Seen' = After(t)
  BY <1>1, HeapStep DEF Seen, After, Shape, TypeOK
<1>4. Ends /\ Shows(out[t], After(t), sends)
  BY <1>1, <1>3, CallEnds
<1>5. CASE ~ (HasPaid(t) /\ After(t) = None /\ out[t] = CompleteSwap(before.row))
  <2>1. PICK d \in Swap, c \in Swap \cup {None} :
            /\ c = After(t) /\ Plan(t, d, c) /\ out[t] = UpdateSwap(before.row, d)
            /\ sends = before.sends
    BY <1>1, <1>5 DEF WillWrite
  <2> QED
    BY <1>2, <1>4, <2>1, PlanEnds
<1>6. CASE HasPaid(t) /\ After(t) = None /\ out[t] = CompleteSwap(before.row)
  <2>1. PICK o \in Swap : ToSettle(t, o)
    BY <1>6 DEF HasPaid
  <2>2. sends = before.sends + 1 /\ before.sends < MaxSends
    BY <1>2, <1>6, MaxSendsIsNat DEF HasPaid
  <2> QED
    BY <1>2, <1>4, <1>6, <2>1, <2>2, PaymentEnds
<1> QED
  BY <1>2, <1>5, <1>6

LEMMA ExpireStep ==
    ASSUME Shape, Exclusive, ~ overlapped, Track(Cleaner), Expire
    PROVE  pc'[Cleaner] = "idle" /\ Engine!Next
<1>1. /\ Cleaner \in Threads /\ pc[Cleaner] = "expire" /\ Return(Cleaner)
      /\ row' = out[Cleaner] /\ cached' = NoObject
      /\ UNCHANGED <<sends, confirmed, touched, cleared, due>>
  BY DEF Expire, At, Threads
<1>2. /\ Recalled /\ WillExpire(Cleaner) /\ sends = before.sends
      /\ before.row \in Row /\ row = before.row
  BY <1>1, FoundIsSwap DEF Track, InPlace, Recalled
<1>3. Ends /\ Shows(out[Cleaner], None, sends)
  BY <1>1, CallEnds DEF Seen
<1>4. Engine!Next
  BY <1>2, <1>3, ExpiryEnds DEF WillExpire
<1> QED
  BY <1>1, <1>4, ReturnShape DEF Shape

-----------------------------------------------------------------------------
(* The steps that begin a call, and those outside of calls. *)

Simulates == Engine!Next \/ UNCHANGED Engine!vars

LEMMA SameView ==
    ASSUME View' = View, confirmed' = confirmed
    PROVE  Simulates
BY DEF Simulates, Engine!vars, Engine!engineVars, Engine!loopVars, Engine!envVars, OfSwap, IfIn

\* Of the calls only the busy one is to be followed.
LEMMA TrackStep ==
    ASSUME NEW t \in Threads, \A u \in Threads \ {t} : pc[u] = "idle" /\ pc'[u] = pc[u],
           row' # None, pc'[t] # "idle" => Track(t)'
    PROVE  OnTrack'
BY DEF OnTrack, Uncreated

LEMMA BeginStep ==
    ASSUME Shape, ~ overlapped', NEW t \in Threads, NEW call, Begin(t, call),
           due' \subseteq {Settler, Cleaner},
           \/ /\ call \in {"confirm", "cancel"} /\ t \in Callers
              /\ UNCHANGED <<touched, due>>
           \/ /\ call \in {"settle"} \cup AdminTargets /\ t \in Callers
              /\ touched' = TRUE /\ UNCHANGED due
           \/ /\ \/ t = Settler /\ call = "settle"
                 \/ t = Cleaner /\ call = "confirm"
              /\ t \in due /\ due' = due \ {t} /\ UNCHANGED touched
    PROVE  OnTrack' /\ Simulates
<1>1. /\ Busy = {} /\ row # None /\ row \in Row /\ before' = Outside
      /\ UNCHANGED <<row, heap, cached, sends, confirmed, cleared>>
      /\ pc'[t] = "lookup" /\ op'[t] = call
      /\ \A u \in Threads \ {t} : pc[u] = "idle" /\ pc'[u] = pc[u]
  <2>1. Busy = {}
    BY MeetsNone
  <2> QED
    BY <2>1 DEF Begin, Remember, Busy, Shape, TypeOK
<1>2. Seen' = Seen /\ Latest' = Latest /\ before'.cache = Seen /\ before'.row = row
  BY <1>1 DEF Seen, Latest, Outside
<1>3. Recalled' /\ sends' = before'.sends
  <2>1. Seen \in Swap \cup {None}
    BY DEF Seen, Shape, TypeOK
  <2> QED
    BY <1>1, <1>2, <2>1 DEF Recalled, Outside, Shape, TypeOK
<1>4. Found' = Latest /\ Latest \in Swap
  <2>1. Found' = Latest
    BY <1>2 DEF Found, Latest, Seen, Shape, CacheShape
  <2>2. pc'[t] # "idle" /\ Shape'
    <3>1. call \in Calls /\ touched' \in BOOLEAN
      BY DEF Calls, Shape, TypeOK
    <3> QED
      BY <1>1, <3>1, ShapeBegin
  <2>3. Found' \in Swap
    <3>1. AdminColumn(row) \in AdminMarks
      BY <1>1 DEF AdminColumn, Row, Swap, AdminMarks
    <3>2. GetSwap(row) \in Swap
      BY <1>1, <3>1 DEF GetSwap, Row, Swap
    <3> QED
      BY <1>2, <1>3, <3>2 DEF Found, Recalled
  <2> QED
    BY <2>1, <2>3
<1>5. /\ before'.touched = touched /\ before'.due = due /\ Uncleared'
  BY <1>1 DEF Outside, Uncleared
<1>6. LooksUp(t)'
  <2>1. CASE call = "settle"
    <3>1. Settles(t)'
      BY <1>5, <2>1, NoTargets DEF Settles, ByAdministrator, ByLoop
    <3>2. \E o \in Swap : o = Latest' /\ ToSettle(t, o)'
      BY <1>2, <1>4, <1>5, <3>1 DEF ToSettle
    <3> QED
      BY <1>1, <2>1, <3>2 DEF LooksUp
  <2>2. CASE call # "settle"
    <3>1. Reads(t)'
      BY <1>1, <1>5, <2>2, NoTargets DEF Reads, Confirms, ByUser, ByAdministrator, ByLoop
    <3> QED
      BY <1>2, <3>1 DEF LooksUp
  <2> QED
    BY <2>1, <2>2
<1>7. OnTrack'
  <2>1. Track(t)'
    BY <1>1, <1>3, <1>6 DEF Track, InPlace
  <2> QED
    BY <1>1, <2>1, TrackStep
<1>8. View' = View
  <2>1. Busy' # {}
    BY <1>1 DEF Busy
  <2> QED
    BY <1>1, <2>1 DEF View
<1> QED
  BY <1>1, <1>7, <1>8, SameView

LEMMA ReadExpiredStep ==
    ASSUME Shape, ~ overlapped', ReadExpired
    PROVE  OnTrack' /\ Simulates
<1>1. /\ Cleaner \in Threads /\ Busy = {} /\ row # None /\ before' = Outside
      /\ row.col \in Expirable /\ row.data.status \in Expirable
      /\ UNCHANGED <<row, heap, cached, sends, confirmed, touched, cleared, due>>
      /\ pc'[Cleaner] = "expire"
      /\ out'[Cleaner] =
            [col |-> "timed_out", data |-> [row.data EXCEPT !.status = "timed_out"]]
      /\ \A u \in Threads \ {Cleaner} : pc[u] = "idle" /\ pc'[u] = pc[u]
  <2>1. Busy = {}
    BY MeetsNone
  <2> QED
    BY <2>1 DEF ReadExpired, Remember, Busy, Threads, Shape, TypeOK
<1>2. Recalled' /\ sends' = before'.sends
  <2>1. Seen \in Swap \cup {None}
    BY DEF Seen, Shape, TypeOK
  <2> QED
    BY <1>1, <2>1 DEF Recalled, Outside, Seen, Shape, TypeOK
<1>3. WillExpire(Cleaner)'
  BY <1>1 DEF WillExpire, Outside, Uncleared
<1>4. OnTrack'
  <2>1. Track(Cleaner)'
    BY <1>1, <1>2, <1>3 DEF Track, InPlace
  <2> QED
    BY <1>1, <2>1, TrackStep
<1>5. View' = View
  <2>1. Busy' # {}
    BY <1>1 DEF Busy
  <2> QED
    BY <1>1, <2>1 DEF View
<1> QED
  BY <1>1, <1>4, <1>5, SameView

LEMMA CreateStep ==
    ASSUME Shape, ~ overlapped, OnTrack, NEW st \in {"pending", "circuit_breaker"},
           CreateSwap(st)
    PROVE  OnTrack' /\ Simulates
<1>1. PICK n \in Amounts :
          LET o == [status |-> st, admin |-> "absent", net |-> n] IN
          /\ row' = AddSwap(o) /\ cached' = Unused /\ heap' = [heap EXCEPT ![Unused] = o]
  BY DEF CreateSwap
<1> DEFINE o == [status |-> st, admin |-> "absent", net |-> n]
<1>2. /\ Busy = {} /\ Busy' = {} /\ row = None
      /\ sends = 0 /\ Id \notin confirmed /\ ~ touched /\ ~ cleared
      /\ cached = NoObject
      /\ UNCHANGED <<sends, confirmed, touched, cleared, due, pc>>
  BY CreateMeetsNone DEF CreateSwap, callVars, Busy, OnTrack, Uncreated, Shape, CacheShape
<1>3. Unused \in Objects /\ Unused # NoObject
  <2>1. Settler \in Threads /\ ref[Settler] = NoObject
    BY <1>2 DEF Busy, Threads, Shape, CallShape
  <2> QED
    BY <2>1, UnusedIsFree, ObjectsAreThere DEF Shape
<1>4. heap'[Unused] = o
  BY <1>1, <1>3 DEF Shape, TypeOK
<1>5. o \in Swap /\ AddSwap(o) \in Row
  BY DEF Swap, AddSwap, Row, SwapStatuses, AdminMarks
<1>6. /\ View.row = None /\ View.cache = None /\ View.sends = 0
      /\ View.touched = touched /\ View.cleared = cleared /\ View.due = due
      /\ Shows(AddSwap(o), o, 0)
      /\ View'.touched = touched /\ View'.cleared = cleared /\ View'.due = due
  BY <1>1, <1>2, <1>3, <1>4 DEF View, Outside, Shows
<1> HIDE DEF o
<1>7. OnTrack'
  <2>1. row' # None
    BY <1>1, <1>5, ObjectsAreThere DEF o
  <2> QED
    BY <1>2, <2>1 DEF OnTrack, Uncreated, Busy
<1>8. Engine!CreateSwap(Id, n, st)
  <2>1. ~ Engine!Cached("main", Id) /\ OfSwap(View.row)[Id] = None /\ OfSwap(View.sends)[Id] = 0
    BY <1>6, EngineLooksUp DEF OfSwap
  <2>2. Engine!Delayed("main") = {}
    BY <1>6, <2>1 DEF Engine!Delayed, Engine!DelayedInCache, Engine!DelayedInStore, OfSwap
  <2>3. ~ Engine!LiquidityBlocked("main", OfSwap("coin")[Id], n)
    BY <2>2 DEF Engine!LiquidityBlocked
  <2>4. Engine!SetCache("main", Id, o)
    BY <1>6 DEF Engine!SetCache, Shows, OfSwap
  <2>5. Engine!Persist(Id, Engine!AddSwap(o))
    BY <1>6, SameStore DEF Engine!Persist, Shows, OfSwap
  <2>6. UNCHANGED Engine!loopVars /\ UNCHANGED Engine!envVars /\ OfSwap(View'.sends) = OfSwap(View.sends)
    BY <1>2, <1>6 DEF Engine!loopVars, Engine!envVars, IfIn, Shows
  <2>7. Id \notin confirmed \cup IfIn(View.touched) \cup IfIn(View.cleared)
    BY <1>2, <1>6 DEF IfIn
  <2> QED
    BY <2>1, <2>3, <2>4, <2>5, <2>6, <2>7 DEF Engine!CreateSwap, Engine!Procs, o
<1>9. Engine!Next
  BY <1>8 DEF Engine!Next, Engine!UserStep
<1> QED
  BY <1>7, <1>9 DEF Simulates

\* While a call is in progress the view has the row; between calls it is what is there.
LEMMA ViewHasRow ==
    ASSUME Shape, OnTrack, ~ overlapped
    PROVE  View.row = row
<1>1. CASE Busy = {}
  BY <1>1 DEF View, Outside
<1>2. CASE Busy # {}
  BY <1>2 DEF View, Busy, OnTrack, Track, Recalled
<1> QED
  BY <1>1, <1>2

\* A step that leaves calls, objects and the table alone keeps a call on track.
LEMMA TrackKept ==
    ASSUME NEW t \in Threads, Track(t), confirmed \subseteq confirmed',
           UNCHANGED <<row, heap, cached, sends, touched, cleared, due>>,
           UNCHANGED <<op, pc, ref, out, before>>
    PROVE  Track(t)'
<1>1. /\ Seen' = Seen /\ Latest' = Latest /\ Object(t)' = Object(t) /\ After(t)' = After(t)
      /\ Recalled'
  BY KeepsRecalled DEF Seen, Latest, Object, After, Track
<1>2. /\ Found' = Found
      /\ Confirms(t) => Confirms(t)'
      /\ Confirmed(t) => Confirmed(t)'
      /\ Uncleared => Uncleared'
      /\ \A o : ToSettle(t, o) => ToSettle(t, o)'
      /\ \A d, c : Plan(t, d, c) => Plan(t, d, c)'
  BY Keeps
<1>3. Reads(t) => Reads(t)'
  BY Keeps DEF Reads
<1>4. LooksUp(t) => LooksUp(t)'
  BY <1>1, <1>2, <1>3 DEF LooksUp
<1>5. HasFound(t) => HasFound(t)'
  BY <1>1, <1>2, <1>3 DEF HasFound
<1>6. IsLate(t) => IsLate(t)'
  BY <1>1, <1>2 DEF IsLate
<1>7. AsksWallet(t) => AsksWallet(t)'
  BY <1>1, <1>2 DEF AsksWallet
<1>8. HasPaid(t) => HasPaid(t)'
  BY <1>2 DEF HasPaid
<1>9. WillUpdate(t) => WillUpdate(t)'
  BY <1>1, <1>2 DEF WillUpdate
<1>10. WillWrite(t) => WillWrite(t)'
  BY <1>1, <1>2, <1>8 DEF WillWrite
<1>11. WillExpire(t) => WillExpire(t)'
  BY DEF WillExpire, Uncleared
<1>12. InPlace(t)'
  BY <1>4, <1>5, <1>6, <1>7, <1>8, <1>9, <1>10, <1>11 DEF Track, InPlace
<1> QED
  BY <1>1, <1>12 DEF Track

LEMMA DepositStep ==
    ASSUME Shape, OnTrack, ~ overlapped, Deposit
    PROVE  OnTrack' /\ Simulates
<1>1. /\ row # None /\ Id \notin confirmed /\ confirmed' = confirmed \cup {Id}
      /\ UNCHANGED <<row, heap, cached, sends, touched, cleared, due, op, pc, ref, out, before>>
  BY DEF Deposit, callVars, viewVars
<1>2. \A t \in Threads : Track(t) => Track(t)'
  BY <1>1, TrackKept
<1>3. OnTrack'
  BY <1>1, <1>2 DEF OnTrack, Uncreated
<1>4. View' = View /\ OfSwap(View.row)[Id] # None
  BY <1>1, ViewHasRow DEF View, Busy, Outside, OfSwap
<1>5. /\ UNCHANGED Engine!engineVars /\ UNCHANGED Engine!loopVars
      /\ IfIn(View'.touched) = IfIn(View.touched) /\ IfIn(View'.cleared) = IfIn(View.cleared)
  BY <1>4 DEF Engine!engineVars, Engine!loopVars, OfSwap, IfIn
<1>6. Engine!Deposit(Id)
  BY <1>1, <1>4, <1>5 DEF Engine!Deposit
<1> QED
  BY <1>3, <1>6 DEF Simulates, Engine!Next, Engine!UserStep

\* A loop looks for work while no call is in progress.
LEMMA LooksForWork ==
    ASSUME Shape, ~ overlapped', StartSweep \/ StartScan
    PROVE  /\ row # None /\ OnTrack'
           /\ View.row = row /\ View.cache = Seen /\ View.due = due /\ View'.due = due'
           /\ View'.row = View.row /\ View'.cache = View.cache /\ View'.sends = View.sends
           /\ View'.touched = View.touched /\ View'.cleared = View.cleared
           /\ confirmed' = confirmed
<1>1. /\ Busy = {} /\ Busy' = {} /\ row # None
      /\ UNCHANGED <<row, heap, cached, sends, confirmed, touched, cleared>>
  BY MeetsNone DEF StartSweep, StartScan, Busy, callVars, Shape, CacheShape
<1>2. OnTrack'
  BY <1>1 DEF OnTrack, Uncreated, Busy
<1> QED
  BY <1>1, <1>2 DEF View, Outside, Seen

LEMMA StartSweepStep ==
    ASSUME Shape, ~ overlapped', StartSweep
    PROVE  OnTrack' /\ Simulates
<1>1. UNCHANGED Engine!engineVars /\ UNCHANGED Engine!envVars
  BY LooksForWork DEF Engine!engineVars, Engine!envVars, OfSwap, IfIn
<1>2. /\ Settler \notin View.due /\ Settler \in View'.due
      /\ Cleaner \in View'.due <=> Cleaner \in View.due
  BY LooksForWork, LoopsAreApart DEF StartSweep
<1>3. Id \in Engine!Delayed("main")
  <2>1. CASE cached # NoObject /\ heap[cached].status = "delayed"
    <3>1. View.cache # None /\ View.cache.status = "delayed"
      BY <2>1, LooksForWork DEF Seen, Shape, CacheShape
    <3> QED
      BY <3>1 DEF Engine!Delayed, Engine!DelayedInCache, Engine!Cached, OfSwap
  <2>2. CASE row # None /\ row.col = "delayed"
    BY <2>2, LooksForWork DEF Engine!Delayed, Engine!DelayedInStore, OfSwap
  <2> QED
    BY <2>1, <2>2 DEF StartSweep
<1>4. Engine!Delayed("main") = {Id}
  BY <1>3 DEF Engine!Delayed
<1>5. /\ [w \in {"loop"} |-> IfIn(Settler \in View.due)]["loop"] = {}
      /\ [w \in {"loop"} |-> IfIn(Settler \in View'.due)] =
            [[w \in {"loop"} |-> IfIn(Settler \in View.due)] EXCEPT !["loop"] = {Id}]
      /\ IfIn(Cleaner \in View'.due) = IfIn(Cleaner \in View.due)
  BY <1>2 DEF IfIn
<1>6. Engine!StartSweep("loop")
  BY <1>1, <1>4, <1>5 DEF Engine!StartSweep, Engine!ProcOf
<1> QED
  BY <1>6, LooksForWork DEF Simulates, Engine!Next, Engine!BackgroundStep

LEMMA StartScanStep ==
    ASSUME Shape, ~ overlapped', StartScan
    PROVE  OnTrack' /\ Simulates
<1>1. UNCHANGED Engine!engineVars /\ UNCHANGED Engine!envVars
  BY LooksForWork DEF Engine!engineVars, Engine!envVars, OfSwap, IfIn
<1>2. /\ IfIn(Cleaner \in View.due) = {} /\ IfIn(Cleaner \in View'.due) = {Id}
      /\ IfIn(Settler \in View'.due) = IfIn(Settler \in View.due)
  BY LooksForWork, LoopsAreApart DEF StartScan, IfIn
<1>3. {Id} \subseteq {s \in {Id} : /\ OfSwap(View.row)[s] # None
                                   /\ OfSwap(View.row)[s].col \notin Engine!NotScanned}
  BY LooksForWork, SameStatuses DEF StartScan, OfSwap
<1>4. Engine!StartScan({Id})
  BY <1>1, <1>2, <1>3 DEF Engine!StartScan
<1> QED
  BY <1>4, LooksForWork DEF Simulates, Engine!Next, Engine!BackgroundStep

-----------------------------------------------------------------------------
(* Every step. *)

LEMMA CallStepSimulates ==
    ASSUME Shape, Exclusive, ~ overlapped, OnTrack, NEW t \in Threads, CallStep(t)
    PROVE  OnTrack' /\ Simulates
<1>1. pc[t] # "idle"
  BY DEF CallStep, Lookup, Read, Route, Late, Confirmations, RepriceFails, Pay, Delay, DelayTo,
         Fail, Answered, Settling, Cancel, SetSwapStatus, Update, Complete, Write, At
<1>2. \A u \in Threads \ {t} : pc[u] = "idle" /\ pc'[u] = pc[u]
  <2>1. \A u \in Threads \ {t} : pc'[u] = pc[u]
    BY DEF CallStep, Lookup, Read, Route, Late, Confirmations, RepriceFails, Pay, Delay, DelayTo,
           Fail, Answered, Cancel, SetSwapStatus, Update, Complete, Write, Goto, Return, Shape, TypeOK
  <2> QED
    BY <1>1, <2>1 DEF Exclusive
<1>3. Track(t)
  BY <1>1 DEF OnTrack
<1>4. confirmed' = confirmed /\ (pc'[t] # "idle" => before' = before)
  BY KeepsBefore DEF CallStep, Lookup, Read, Route, Late, Confirmations, RepriceFails, Pay, Delay, DelayTo,
         Fail, Answered, Elsewhere, Cancel, SetSwapStatus, Update, Complete, Write
<1>5. row' # None
  <2>1. Shape' /\ row \in Row
    BY <1>1, ShapeCall DEF Shape, TypeOK, CallShape
  <2>2. CASE Write(t)
    BY <2>2, ObjectsAreThere DEF Write, At, Shape, TypeOK, CallShape
  <2>3. CASE ~ Write(t)
    <3>1. row' = row
      BY <2>3 DEF CallStep, Lookup, Read, Route, Late, Confirmations, RepriceFails, Pay, Delay,
             DelayTo, Fail, Answered, Elsewhere, Cancel, SetSwapStatus, Update, Complete
    <3> QED
      BY <2>1, <3>1, ObjectsAreThere
  <2> QED
    BY <2>2, <2>3
<1>6. /\ pc'[t] # "idle" => Track(t)'
      /\ pc'[t] = "idle" => Simulates
  <2>1. CASE Lookup(t) \/ Read(t)
    <3>1. Track(t)' /\ pc'[t] # "idle"
      BY <1>3, <2>1, TrackLookup, TrackRead DEF Lookup, Read, Shape, TypeOK
    <3> QED
      BY <3>1
  <2>2. CASE Route(t) \/ Confirmations(t)
    BY <1>3, <2>2, RouteStep, ConfirmationsStep DEF Simulates
  <2>3. CASE RepriceFails(t) \/ Pay(t) \/ Delay(t) \/ Fail(t)
    BY <1>3, <2>3, SettleStep DEF Simulates
  <2>4. CASE Late(t) \/ Answered(t) \/ SetSwapStatus(t) \/ Update(t) \/ Complete(t)
    <3>1. Track(t)'
      BY <1>3, <2>4, LateStep, AnsweredStep, SetStep, TableStep
    <3>2. pc'[t] # "idle"
      BY <2>4 DEF Late, Answered, SetSwapStatus, Update, Complete, Goto, Shape, TypeOK
    <3> QED
      BY <3>1, <3>2
  <2>5. CASE Cancel(t)
    BY <1>3, <2>5, CancelStep DEF Simulates
  <2>6. CASE Write(t)
    BY <1>3, <2>6, WriteStep DEF Simulates
  <2> QED
    BY <2>1, <2>2, <2>3, <2>4, <2>5, <2>6 DEF CallStep
<1>7. pc'[t] # "idle" => Simulates
  <2> SUFFICES ASSUME pc'[t] # "idle"
               PROVE  Simulates
    OBVIOUS
  <2>1. Busy # {} /\ Busy' # {}
    BY <1>1 DEF Busy
  <2>2. View' = View
    BY <1>4, <2>1 DEF View
  <2> QED
    BY <1>4, <2>2, SameView
<1> QED
  BY <1>2, <1>5, <1>6, <1>7, TrackStep

LEMMA OuterSimulates ==
    ASSUME Shape, Exclusive, ~ overlapped, ~ overlapped', OnTrack, Outer
    PROVE  OnTrack' /\ Simulates
<1>1. Settler \in Threads /\ Cleaner \in Threads /\ Callers \subseteq Threads
  BY DEF Threads
<1>2. CASE \E st \in {"pending", "circuit_breaker"} : CreateSwap(st)
  BY <1>2, CreateStep
<1>3. CASE Deposit
  BY <1>3, DepositStep
<1>4. ASSUME NEW t \in Callers, NEW call \in {"confirm", "cancel"}, UserCall(t, call)
      PROVE  OnTrack' /\ Simulates
  BY <1>1, <1>4, BeginStep DEF UserCall, Shape, TypeOK
<1>5. ASSUME NEW t \in Callers, NEW call \in ByAdmin, AdminCall(t, call)
      PROVE  OnTrack' /\ Simulates
  BY <1>1, <1>5, ByAdminKnown, BeginStep DEF AdminCall, Shape, TypeOK
<1>6. CASE LoopCall(Settler, "settle")
  BY <1>1, <1>6, BeginStep DEF LoopCall, Shape, TypeOK
<1>7. CASE LoopCall(Cleaner, "confirm")
  BY <1>1, <1>7, BeginStep DEF LoopCall, Shape, TypeOK
<1>8. CASE StartSweep \/ StartScan \/ ReadExpired
  BY <1>8, StartSweepStep, StartScanStep, ReadExpiredStep
<1>9. CASE Expire
  <2>1. pc[Cleaner] # "idle" /\ Track(Cleaner)
    BY <1>1, <1>9 DEF Expire, At, OnTrack
  <2>2. pc'[Cleaner] = "idle" /\ Engine!Next
    BY <1>9, <2>1, ExpireStep
  <2>3. \A u \in Threads \ {Cleaner} : pc[u] = "idle" /\ pc'[u] = pc[u]
    BY <1>1, <1>9, <2>1, ReturnShape DEF Expire, Exclusive, Shape
  <2>4. row' # None
    BY <1>1, <1>9 DEF Expire, At, Shape, CallShape
  <2> QED
    BY <1>1, <2>2, <2>3, <2>4, TrackStep DEF Simulates
<1> QED
  BY <1>2, <1>3, <1>4, <1>5, <1>6, <1>7, <1>8, <1>9 DEF Outer

LEMMA NextSimulates ==
    Shape /\ Exclusive /\ OnTrack /\ [Next]_vars => OnTrack' /\ (overlapped' \/ Simulates)
<1> SUFFICES ASSUME Shape, Exclusive, OnTrack, [Next]_vars, ~ overlapped'
             PROVE  OnTrack' /\ Simulates
  BY DEF OnTrack
<1>0. ~ overlapped
  BY OverlapLasts
<1>1. CASE UNCHANGED vars
  <2>1. OnTrack'
    BY <1>0, <1>1, TrackKept DEF vars, callVars, viewVars, OnTrack, Uncreated
  <2>2. View' = View /\ confirmed' = confirmed
    BY <1>1 DEF vars, callVars, viewVars, View, Busy, Outside
  <2> QED
    BY <2>1, <2>2, SameView
<1>2. CASE \E t \in Threads : CallStep(t)
  BY <1>0, <1>2, CallStepSimulates
<1>3. CASE Outer
  BY <1>0, <1>3, OuterSimulates
<1> QED
  BY <1>1, <1>2, <1>3 DEF Next, Outer

\* The view of the start is the engine's.
LEMMA InitSimulates == Init => Engine!Init
<1> SUFFICES ASSUME Init
             PROVE  Engine!Init
  OBVIOUS
<1>1. Busy = {} /\ View = Outside
  BY DEF Init, Busy, View
<1>2. /\ View.row = None /\ View.cache = None /\ View.sends = 0
      /\ ~ View.touched /\ ~ View.cleared /\ View.due = {}
  BY <1>1 DEF Init, Outside
<1> QED
  BY <1>2 DEF Init, Engine!Init, Engine!Procs, OfSwap, IfIn

\* Until calls on a swap overlap, each call of the API's threads and the background
\* threads, with its lookups, waits, reads, writes and shared objects, is one step of
\* SwapEngine, whatever the threads and the administrator do.
THEOREM CallsAreEngineSteps == Spec => ImplementsEngine
<1>1. Init => Exclusive /\ OnTrack
  BY IdIsApart DEF Init, Exclusive, OnTrack, Uncreated
<1>2. Shape /\ Exclusive /\ [Next]_vars => Exclusive'
  BY ExclusiveNext
<1>3. Shape /\ Exclusive /\ OnTrack /\ [Next]_vars => OnTrack'
  BY NextSimulates
<1>4. Shape /\ Exclusive /\ OnTrack /\ [Next]_vars
         => [overlapped' \/ [Engine!Next]_(Engine!vars)]_vars
  BY NextSimulates DEF Simulates
<1> QED
  BY <1>1, <1>2, <1>3, <1>4, InitSimulates, ShapeAlways, PTL DEF Spec, ImplementsEngine
=============================================================================
