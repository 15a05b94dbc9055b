--------------------------- MODULE SwapThreadsProofs ---------------------------
(***************************************************************************)
(* Theorems about SwapThreads for any number of API threads, of calls in   *)
(* progress at once and of calls of an administrator.                      *)
(***************************************************************************)
EXTENDS SwapThreads, FiniteSetTheorems, TLAPS

(* The shape of the heap and of the calls: an object that is cached or that a *)
(* thread works on is there, and a row that is read or written exists.         *)

Holding == {"found", "late_stored", "late_cached", "confirmations", "sent", "complete",
            "update", "write"}

CallShape(t) ==
    /\ pc[t] \in {"idle", "read", "expire"} => ref[t] = NoObject
    /\ pc[t] \in Holding => ref[t] # NoObject
    /\ ref[t] # NoObject => heap[ref[t]] # None
    /\ pc[t] \in {"write", "expire"} => out[t] # None
    /\ pc[t] # "idle" => row # None

CacheShape == cached # NoObject => heap[cached] # None /\ row # None

Shape == TypeOK /\ CacheShape /\ \A t \in Threads : CallShape(t)

LEMMA ThreadsAreFinite == IsFiniteSet(Threads) /\ Cardinality(Threads) \in Nat
<1>1. IsFiniteSet({Settler, Cleaner})
  <2>1. IsFiniteSet({Settler}) /\ {Settler, Cleaner} = {Settler} \cup {Cleaner}
    BY FS_Singleton
  <2>2. IsFiniteSet({Settler} \cup {Cleaner})
    BY <2>1, FS_AddElement
  <2> QED
    BY <2>1, <2>2
<1>2. IsFiniteSet(Threads)
  BY <1>1, CallersAreFinite, FS_Union DEF Threads
<1> QED
  BY <1>2, FS_CardinalityType

LEMMA ObjectsAreThere == NoObject \notin Objects /\ None \notin Swap /\ None \notin Row
BY ThreadsAreFinite, NoneIsNoRecord DEF NoObject, Objects

\* A thread that holds none leaves an object for the taking.
LEMMA UnusedIsFree ==
    ASSUME TypeOK, NEW t \in Threads, ref[t] = NoObject
    PROVE  Unused \in Objects /\ Unused # cached /\ \A u \in Threads : ref[u] # Unused
<1>1. SUFFICES ASSUME \A o \in Objects : o = cached \/ \E u \in Threads : ref[u] = o
               PROVE  FALSE
  BY DEF Unused
<1> DEFINE f == [o \in Objects |-> IF o = cached THEN t ELSE CHOOSE u \in Threads : ref[u] = o]
<1>2. f \in [Objects -> Threads]
  BY <1>1
<1>3. IsFiniteSet(Objects) /\ Cardinality(Objects) = Cardinality(Threads) + 1
  BY ThreadsAreFinite, FS_Interval DEF Objects
<1>4. Cardinality(Threads) < Cardinality(Objects)
  BY <1>3, ThreadsAreFinite
<1>5. PICK x \in Objects, y \in Objects : x # y /\ f[x] = f[y]
  <2> HIDE DEF f
  <2>1. \E x, y \in Objects : x # y /\ f[x] = f[y]
    BY <1>2, <1>3, <1>4, ThreadsAreFinite, FS_PigeonHole
  <2> QED
    BY <2>1
<1>6. \A o \in Objects : o # cached => ref[f[o]] = o
  BY <1>1
<1>7. ref[t] \notin Objects
  BY ObjectsAreThere
<1>8. \A o \in Objects : o = cached => f[o] = t
  OBVIOUS
<1> HIDE DEF f
<1> QED
  BY <1>5, <1>6, <1>7, <1>8

\* What Heap does.
LEMMA HeapStep ==
    ASSUME NEW h \in [Objects -> Swap \cup {None}], Heap(h)
    PROVE  /\ heap' \in [Objects -> Swap \cup {None}]
           /\ \A o \in Objects : heap'[o] \in {h[o], None}
           /\ cached' \in Objects => heap'[cached'] = h[cached']
           /\ \A u \in Threads : ref'[u] \in Objects => heap'[ref'[u]] = h[ref'[u]]
BY DEF Heap

\* A thread's object, and the objects after its status is set.
LEMMA HeldObject ==
    ASSUME Shape, NEW t \in Threads, pc[t] \in Holding
    PROVE  /\ ref[t] \in Objects
           /\ Object(t) \in Swap
           /\ row \in Row
           /\ \A st \in SwapStatuses :
                 /\ SetStatus(t, st) \in [Objects -> Swap \cup {None}]
                 /\ SetStatus(t, st)[ref[t]] = [Object(t) EXCEPT !.status = st]
                 /\ \A o \in Objects \ {ref[t]} : SetStatus(t, st)[o] = heap[o]
<1>1. ref[t] \in Objects /\ heap[ref[t]] \in Swap /\ row \in Row
  BY DEF Shape, TypeOK, CallShape, Holding
<1>2. heap \in [Objects -> Swap \cup {None}]
  BY DEF Shape, TypeOK
<1>3. ASSUME NEW st \in SwapStatuses
      PROVE  /\ SetStatus(t, st) \in [Objects -> Swap \cup {None}]
             /\ SetStatus(t, st)[ref[t]] = [Object(t) EXCEPT !.status = st]
             /\ \A o \in Objects \ {ref[t]} : SetStatus(t, st)[o] = heap[o]
  <2>1. [heap[ref[t]] EXCEPT !.status = st] \in Swap
    BY <1>1 DEF Swap
  <2> QED
    BY <1>1, <1>2, <2>1 DEF SetStatus, Object
<1> QED
  BY <1>1, <1>3 DEF Object

\* A step that leaves the other threads' calls alone.
LEMMA StepShape ==
    ASSUME Shape, TypeOK', NEW t \in Threads,
           \A u \in Threads \ {t} : pc'[u] = pc[u] /\ ref'[u] = ref[u] /\ out'[u] = out[u],
           row # None => row' # None,
           \A u \in Threads \ {t} : ref[u] \in Objects => heap'[ref[u]] # None,
           CacheShape', CallShape(t)'
    PROVE  Shape'
BY DEF Shape, TypeOK, CallShape

LEMMA ReturnShape ==
    ASSUME TypeOK, NEW t \in Threads, Return(t)
    PROVE  /\ op' \in [Threads -> Calls] /\ pc' \in [Threads -> Places]
           /\ ref' \in [Threads -> Objects \cup {NoObject}] /\ out' \in [Threads -> Row \cup {None}]
           /\ pc'[t] = "idle" /\ op'[t] = "none" /\ ref'[t] = NoObject /\ out'[t] = None
           /\ \A u \in Threads \ {t} : /\ pc'[u] = pc[u] /\ op'[u] = op[u]
                                       /\ ref'[u] = ref[u] /\ out'[u] = out[u]
BY DEF Return, TypeOK, Calls, Places

LEMMA GotoShape ==
    ASSUME TypeOK, NEW t \in Threads, NEW place \in Places, Goto(t, place)
    PROVE  /\ pc' \in [Threads -> Places] /\ pc'[t] = place
           /\ UNCHANGED <<op, ref, out>>
           /\ \A u \in Threads \ {t} : pc'[u] = pc[u]
BY DEF Goto, TypeOK

-----------------------------------------------------------------------------
(* The steps keep the shape. *)

LEMMA ShapeInit == Init => Shape
<1> SUFFICES ASSUME Init
             PROVE  Shape
  OBVIOUS
<1>1. 0 \in 0..MaxSends
  BY MaxSendsIsNat
<1> QED
  BY <1>1 DEF Init, Transactions, Shape, TypeOK, CacheShape, CallShape, Calls, Places, Holding, NoObject

LEMMA ShapeBegin ==
    ASSUME Shape, NEW t \in Threads, NEW call \in Calls, Begin(t, call),
           touched' \in BOOLEAN, due' \subseteq {Settler, Cleaner}
    PROVE  Shape'
<1>1. TypeOK'
  BY DEF Begin, At, Remember, Meets, Shape, TypeOK, Places
<1>2. CallShape(t)' /\ CacheShape'
  BY DEF Begin, At, Shape, TypeOK, CallShape, CacheShape, Holding
<1>3. \A u \in Threads \ {t} : pc'[u] = pc[u] /\ ref'[u] = ref[u] /\ out'[u] = out[u]
  BY DEF Begin, Shape, TypeOK
<1> QED
  BY <1>1, <1>2, <1>3, StepShape DEF Begin, Shape, CallShape

LEMMA ShapeLookup ==
    ASSUME Shape, NEW t \in Threads, Lookup(t)
    PROVE  Shape'
<1>1. heap \in [Objects -> Swap \cup {None}] /\ Heap(heap)
  BY DEF Lookup, Shape, TypeOK
<1>2. TypeOK'
  BY <1>1, HeapStep DEF Lookup, Keep, Shape, TypeOK, Places
<1>3. CacheShape' /\ \A u \in Threads \ {t} : ref[u] \in Objects => heap'[ref[u]] # None
  BY <1>1, <1>2, HeapStep, ObjectsAreThere DEF Lookup, Shape, TypeOK, CacheShape, CallShape
<1>4. CallShape(t)'
  <2>1. /\ ref'[t] = cached /\ pc'[t] = (IF cached = NoObject THEN "read" ELSE "found")
        /\ row' = row /\ row # None
    BY DEF Lookup, At, Shape, TypeOK, CallShape
  <2>2. cached # NoObject => heap'[cached] # None
    BY <1>3 DEF Lookup, CacheShape
  <2> QED
    BY <2>1, <2>2 DEF CallShape, Holding
<1> QED
  BY <1>2, <1>3, <1>4, StepShape DEF Lookup, Shape, TypeOK

LEMMA ReadObject ==
    ASSUME Shape, NEW t \in Threads, At(t, "read")
    PROVE  /\ row \in Row /\ GetSwap(row) \in Swap
           /\ Unused \in Objects /\ Unused # cached /\ \A u \in Threads : ref[u] # Unused
           /\ [heap EXCEPT ![Unused] = GetSwap(row)] \in [Objects -> Swap \cup {None}]
<1>1. row \in Row /\ ref[t] = NoObject
  BY DEF Shape, TypeOK, CallShape, At
<1>2. AdminColumn(row) \in AdminMarks
  BY <1>1 DEF AdminColumn, Row, Swap, AdminMarks
<1>3. GetSwap(row) \in Swap
  BY <1>1, <1>2, ObjectsAreThere DEF GetSwap, Row, Swap
<1> QED
  BY <1>1, <1>3, UnusedIsFree DEF Shape, TypeOK

LEMMA ShapeRead ==
    ASSUME Shape, NEW t \in Threads, Read(t)
    PROVE  Shape'
<1> DEFINE h == [heap EXCEPT ![Unused] = GetSwap(row)]
<1>1. /\ GetSwap(row) \in Swap /\ row # None /\ h \in [Objects -> Swap \cup {None}]
      /\ Unused \in Objects /\ Unused # cached /\ \A u \in Threads : ref[u] # Unused
  BY ReadObject, ObjectsAreThere DEF Read
<1>2. Heap(h) /\ h[Unused] # None /\ \A o \in Objects \ {Unused} : h[o] = heap[o]
  BY <1>1, ObjectsAreThere DEF Read, Shape, TypeOK
<1> HIDE DEF h
<1>3. heap' \in [Objects -> Swap \cup {None}]
  BY <1>1, <1>2, HeapStep
<1>4. TypeOK'
  BY <1>1, <1>3 DEF Read, Keep, Shape, TypeOK, Places
<1>5. CacheShape'
  <2>1. cached' \in {Unused, cached} /\ row' = row
    BY DEF Read
  <2>2. cached' \in Objects => heap'[cached'] = h[cached']
    BY <1>1, <1>2, HeapStep
  <2> QED
    BY <1>1, <1>2, <2>1, <2>2 DEF Shape, TypeOK, CacheShape
<1>6. \A u \in Threads \ {t} : ref[u] \in Objects => heap'[ref[u]] # None
  BY <1>1, <1>2, HeapStep, ObjectsAreThere DEF Read, Shape, TypeOK, CallShape
<1>7. CallShape(t)'
  <2>1. ref'[t] = Unused /\ pc'[t] = "found" /\ row' = row
    BY DEF Read, Shape, TypeOK
  <2>2. heap'[Unused] = h[Unused]
    BY <1>1, <1>2, <2>1, HeapStep
  <2> QED
    BY <1>1, <1>2, <2>1, <2>2, ObjectsAreThere DEF CallShape, Holding
<1> QED
  BY <1>4, <1>5, <1>6, <1>7, StepShape DEF Read, Shape, TypeOK

\* A step of a call that holds an object, sets its status or not, and goes on,
\* returns, or looks the swap up again.
LEMMA ShapeHeld ==
    ASSUME Shape, NEW t \in Threads, pc[t] \in Holding,
           NEW h \in [Objects -> Swap \cup {None}], Heap(h),
           h[ref[t]] # None, \A o \in Objects \ {ref[t]} : h[o] = heap[o],
           \A u \in Threads \ {t} : pc'[u] = pc[u] /\ ref'[u] = ref[u] /\ out'[u] = out[u],
           pc' \in [Threads -> Places], op' \in [Threads -> Calls],
           \/ ref' = ref /\ pc'[t] \in (Holding \ {"write"}) \cup {"lookup"} /\ out' = out
           \/ Return(t),
           cached' \in {cached, NoObject}, sends' \in 0..MaxSends,
           row' \in Row, cleared' \in BOOLEAN, UNCHANGED <<confirmed, touched, due>>, Keep
    PROVE  Shape'
<1>1. heap' \in [Objects -> Swap \cup {None}]
  BY HeapStep
<1>2. /\ ref' \in [Threads -> Objects \cup {NoObject}]
      /\ out' \in [Threads -> Row \cup {None}]
  BY ReturnShape DEF Shape, TypeOK
<1>3. TypeOK'
  BY <1>1, <1>2 DEF Keep, Shape, TypeOK
<1>4. /\ ref[t] \in Objects /\ \A u \in Threads : ref[u] \in Objects => h[ref[u]] # None
      /\ cached \in Objects => h[cached] # None
  BY HeldObject, ObjectsAreThere DEF Shape, TypeOK, CallShape, CacheShape
<1>5. CacheShape'
  BY <1>4, HeapStep, ObjectsAreThere DEF Shape, TypeOK, CacheShape
<1>6. \A u \in Threads \ {t} : ref[u] \in Objects => heap'[ref[u]] # None
  BY <1>4, HeapStep
<1>7. CallShape(t)'
  <2>1. CASE Return(t)
    BY <2>1, ReturnShape DEF Shape, CallShape, Holding
  <2>2. CASE ref' = ref /\ pc'[t] \in (Holding \ {"write"}) \cup {"lookup"}
    <3>1. heap'[ref'[t]] # None
      BY <1>4, <2>2, HeapStep
    <3> QED
      BY <1>4, <2>2, <3>1, ObjectsAreThere DEF CallShape, Holding
  <2> QED
    BY <2>1, <2>2
<1> QED
  BY <1>3, <1>5, <1>6, <1>7, StepShape, ObjectsAreThere

LEMMA HeapIsTyped ==
    ASSUME Shape, NEW t \in Threads, pc[t] \in Holding
    PROVE  /\ heap \in [Objects -> Swap \cup {None}] /\ heap[ref[t]] # None
           /\ row \in Row /\ sends \in 0..MaxSends
           /\ \A st \in SwapStatuses :
                 /\ SetStatus(t, st) \in [Objects -> Swap \cup {None}]
                 /\ SetStatus(t, st)[ref[t]] # None
                 /\ \A o \in Objects \ {ref[t]} : SetStatus(t, st)[o] = heap[o]
<1>1. ASSUME NEW st \in SwapStatuses
      PROVE  /\ SetStatus(t, st) \in [Objects -> Swap \cup {None}]
             /\ SetStatus(t, st)[ref[t]] # None
             /\ \A o \in Objects \ {ref[t]} : SetStatus(t, st)[o] = heap[o]
  <2>1. [Object(t) EXCEPT !.status = st] \in Swap
    BY HeldObject DEF Swap
  <2> QED
    BY <2>1, HeldObject, ObjectsAreThere
<1>2. heap[ref[t]] # None
  BY HeldObject, ObjectsAreThere DEF Object
<1> QED
  BY <1>1, <1>2, HeldObject DEF Shape, TypeOK

LEMMA ShapeConfirm ==
    ASSUME Shape, NEW t \in Threads, Route(t) \/ Late(t) \/ Confirmations(t)
    PROVE  Shape'
<1>1. CASE Route(t)
  <2>1. pc[t] \in Holding
    BY <1>1 DEF Route, At, Holding
  <2>2. Return(t) \/ Goto(t, "late_stored") \/ Goto(t, "late_cached") \/ Goto(t, "confirmations")
    BY <1>1 DEF Route
  <2>3. CASE Return(t)
    BY <1>1, <2>1, <2>3, HeapIsTyped, ReturnShape, ShapeHeld DEF Route, Shape, TypeOK
  <2>4. ASSUME NEW place \in {"late_stored", "late_cached", "confirmations"}, Goto(t, place)
        PROVE  Shape'
    <3>1. place \in Places /\ place \in (Holding \ {"write"}) \cup {"lookup"}
      BY DEF Places, Holding
    <3>2. pc' \in [Threads -> Places] /\ pc'[t] = place /\ op' \in [Threads -> Calls]
      BY <2>4, <3>1, GotoShape DEF Shape, TypeOK
    <3> QED
      BY <1>1, <2>1, <2>4, <3>1, <3>2, HeapIsTyped, GotoShape, ShapeHeld DEF Route, Shape, TypeOK
  <2> QED
    BY <2>2, <2>3, <2>4
<1>2. CASE Late(t)
  <2>1. pc[t] \in Holding /\ "late_deposit" \in SwapStatuses
    BY <1>2 DEF Late, Holding, SwapStatuses
  <2>2. /\ pc' \in [Threads -> Places] /\ op' \in [Threads -> Calls] /\ pc'[t] = "update"
        /\ \A u \in Threads \ {t} : pc'[u] = pc[u]
    BY <1>2 DEF Late, Shape, TypeOK, Places, Calls
  <2>3. "update" \in (Holding \ {"write"}) \cup {"lookup"}
    BY DEF Holding
  <2> QED
    BY <1>2, <2>1, <2>2, <2>3, HeapIsTyped, ShapeHeld DEF Late, Shape, TypeOK
<1>3. CASE Confirmations(t)
  <2>0. cleared' \in BOOLEAN
    BY <1>3 DEF Confirmations, Record, Shape, TypeOK
  <2>1. /\ pc[t] \in Holding
        /\ "awaiting_deposit" \in SwapStatuses /\ "processing" \in SwapStatuses
    BY <1>3 DEF Confirmations, At, Holding, SwapStatuses
  <2>2. {"update", "lookup"} \subseteq (Holding \ {"write"}) \cup {"lookup"}
    BY DEF Holding
  <2>3. CASE Goto(t, "update") /\ Heap(SetStatus(t, "awaiting_deposit"))
    <3>1. pc' \in [Threads -> Places] /\ pc'[t] = "update" /\ op' \in [Threads -> Calls]
      BY <2>3, GotoShape DEF Places, Shape, TypeOK
    <3> QED
      BY <1>3, <2>0, <2>1, <2>2, <2>3, <3>1, HeapIsTyped, GotoShape, ShapeHeld
         DEF Confirmations, Places, Shape, TypeOK
  <2>4. CASE /\ op' = [op EXCEPT ![t] = "settle"]
             /\ pc' = [pc EXCEPT ![t] = "lookup"]
             /\ UNCHANGED <<ref, out>>
             /\ Heap(SetStatus(t, "processing"))
    <3>1. /\ pc' \in [Threads -> Places] /\ op' \in [Threads -> Calls] /\ pc'[t] = "lookup"
          /\ \A u \in Threads \ {t} : pc'[u] = pc[u]
      BY <2>4 DEF Shape, TypeOK, Places, Calls
    <3> QED
      BY <1>3, <2>0, <2>1, <2>2, <2>4, <3>1, HeapIsTyped, ShapeHeld DEF Confirmations, Shape, TypeOK
  <2>5. CASE Return(t) /\ Heap(heap)
    BY <1>3, <2>0, <2>1, <2>5, HeapIsTyped, ReturnShape, ShapeHeld DEF Confirmations, Shape, TypeOK
  <2> QED
    BY <1>3, <2>3, <2>4, <2>5 DEF Confirmations
<1> QED
  BY <1>1, <1>2, <1>3

LEMMA ShapeGoto ==
    ASSUME Shape, NEW t \in Threads, pc[t] \in Holding,
           NEW h \in [Objects -> Swap \cup {None}], Heap(h),
           h[ref[t]] # None, \A o \in Objects \ {ref[t]} : h[o] = heap[o],
           NEW place \in Holding \ {"write"}, Goto(t, place),
           cached' \in {cached, NoObject}, sends' \in 0..MaxSends,
           UNCHANGED <<row, confirmed, touched, cleared, due>>, Keep
    PROVE  Shape'
<1>1. place \in Places /\ place \in (Holding \ {"write"}) \cup {"lookup"}
  BY DEF Holding, Places
<1>2. /\ pc' \in [Threads -> Places] /\ pc'[t] = place /\ op' \in [Threads -> Calls]
      /\ UNCHANGED <<op, ref, out>> /\ \A u \in Threads \ {t} : pc'[u] = pc[u]
  BY <1>1, GotoShape DEF Shape, TypeOK
<1>3. row' \in Row /\ cleared' \in BOOLEAN
  BY HeapIsTyped DEF Shape, TypeOK
<1> QED
  BY <1>1, <1>2, <1>3, ShapeHeld

LEMMA ShapeSettle ==
    ASSUME Shape, NEW t \in Threads,
           RepriceFails(t) \/ Pay(t) \/ Delay(t) \/ Fail(t) \/ Answered(t)
    PROVE  Shape'
<1>1. pc[t] \in Holding
  BY DEF RepriceFails, Pay, Delay, DelayTo, Fail, Answered, Settling, At, Holding
<1>2. {"delayed", "failed", Settled(t)} \subseteq SwapStatuses
  BY DEF Settled, SwapStatuses
<1>3. {"sent", "update", "complete"} \subseteq Holding \ {"write"}
  BY DEF Holding
<1>4. CASE RepriceFails(t)
  BY <1>1, <1>4, HeapIsTyped, ReturnShape, ShapeHeld DEF RepriceFails, Elsewhere, Shape, TypeOK
<1>5. CASE Pay(t)
  <2>1. sends' \in 0..MaxSends
    BY <1>5, MaxSendsIsNat DEF Pay, Shape, TypeOK
  <2> QED
    BY <1>1, <1>3, <1>5, <2>1, HeapIsTyped, ShapeGoto DEF Pay, Elsewhere
<1>6. CASE Delay(t)
  BY <1>1, <1>2, <1>3, <1>6, HeapIsTyped, ShapeGoto DEF Delay, DelayTo, Elsewhere
<1>7. CASE Fail(t)
  BY <1>1, <1>2, <1>7, HeapIsTyped, ReturnShape, ShapeHeld DEF Fail, Elsewhere, Shape, TypeOK
<1>8. CASE Answered(t)
  BY <1>1, <1>2, <1>3, <1>8, HeapIsTyped, ShapeGoto DEF Answered, Elsewhere
<1> QED
  BY <1>4, <1>5, <1>6, <1>7, <1>8

LEMMA SetByAdmin ==
    ASSUME Shape, NEW t \in Threads, pc[t] \in Holding, op[t] \in AdminTargets
    PROVE  LET h == [heap EXCEPT ![ref[t]].status = op[t], ![ref[t]].admin = op[t]] IN
           /\ h \in [Objects -> Swap \cup {None}]
           /\ h[ref[t]] # None
           /\ h[ref[t]] \in Swap /\ h[ref[t]].status = op[t]
           /\ \A o \in Objects \ {ref[t]} : h[o] = heap[o]
<1>1. ref[t] \in Objects /\ heap[ref[t]] \in Swap /\ heap \in [Objects -> Swap \cup {None}]
  BY HeldObject DEF Object, Shape, TypeOK
<1>2. op[t] \in SwapStatuses /\ op[t] \in AdminMarks
  BY TargetsAreStatuses DEF AdminMarks
<1>3. /\ [[heap[ref[t]] EXCEPT !.status = op[t]] EXCEPT !.admin = op[t]] \in Swap
      /\ [[heap[ref[t]] EXCEPT !.status = op[t]] EXCEPT !.admin = op[t]].status = op[t]
  BY <1>1, <1>2 DEF Swap
<1>4. [heap EXCEPT ![ref[t]].status = op[t], ![ref[t]].admin = op[t]] =
      [heap EXCEPT ![ref[t]] = [[heap[ref[t]] EXCEPT !.status = op[t]] EXCEPT !.admin = op[t]]]
  BY <1>1
<1> QED
  BY <1>1, <1>3, <1>4, ObjectsAreThere

LEMMA ShapeOther ==
    ASSUME Shape, NEW t \in Threads, Cancel(t) \/ SetSwapStatus(t)
    PROVE  Shape'
<1>1. pc[t] \in Holding /\ "cancelled" \in SwapStatuses /\ "update" \in Holding \ {"write"}
  BY DEF Cancel, SetSwapStatus, At, Holding, SwapStatuses
<1>2. CASE Cancel(t)
  <2>1. CASE Return(t) /\ Heap(heap) /\ UNCHANGED cached
    BY <1>1, <1>2, <2>1, HeapIsTyped, ReturnShape, ShapeHeld DEF Cancel, Shape, TypeOK
  <2>2. CASE Goto(t, "update") /\ Heap(SetStatus(t, "cancelled")) /\ cached' = NoObject
    BY <1>1, <1>2, <2>2, HeapIsTyped, ShapeGoto DEF Cancel
  <2> QED
    BY <1>2, <2>1, <2>2 DEF Cancel
<1>3. CASE SetSwapStatus(t)
  BY <1>1, <1>3, SetByAdmin, HeapIsTyped, ShapeGoto DEF SetSwapStatus
<1> QED
  BY <1>2, <1>3

LEMMA ShapeTable ==
    ASSUME Shape, NEW t \in Threads, Update(t) \/ Complete(t) \/ Write(t)
    PROVE  Shape'
<1>1. pc[t] \in Holding /\ row \in Row /\ Object(t) \in Swap
  BY HeldObject DEF Update, Complete, Write, At, Holding
<1>2. AdminColumn(row) \in AdminMarks
  BY <1>1 DEF AdminColumn, Row, Swap, AdminMarks
<1>3. GetSwap(row) \in Swap
  BY <1>1, <1>2, ObjectsAreThere DEF GetSwap, Row, Swap
<1>4. CASE Update(t)
  <2>1. Merge(GetSwap(row), Object(t)) \in Swap
    BY <1>1, <1>3 DEF Merge, Swap
  <2>2. UpdateSwap(row, Object(t)) \in Row
    BY <1>1, <2>1, ObjectsAreThere DEF UpdateSwap, Row, Swap
  <2>3. TypeOK'
    BY <1>4, <2>2 DEF Update, Keep, Shape, TypeOK, Places
  <2>4. CallShape(t)' /\ CacheShape'
    BY <1>1, <1>4, <2>2, ObjectsAreThere DEF Update, Shape, TypeOK, CallShape, CacheShape, Holding
  <2> QED
    BY <1>4, <2>3, <2>4, StepShape DEF Update, Shape, TypeOK, CallShape
<1>5. CASE Complete(t)
  <2>1. [GetSwap(row) EXCEPT !.status = "completed"] \in Swap
    BY <1>3 DEF Swap, SwapStatuses
  <2>2. CompleteSwap(row) \in Row
    BY <1>1, <2>1, ObjectsAreThere DEF CompleteSwap, Row, SwapStatuses
  <2>3. TypeOK'
    BY <1>5, <2>2 DEF Complete, Keep, Shape, TypeOK, Places
  <2>4. CallShape(t)' /\ CacheShape'
    BY <1>1, <1>5, <2>2, ObjectsAreThere DEF Complete, Shape, TypeOK, CallShape, CacheShape, Holding
  <2> QED
    BY <1>5, <2>3, <2>4, StepShape DEF Complete, Shape, TypeOK, CallShape
<1>6. CASE Write(t)
  <2>1. row' \in Row
    BY <1>6 DEF Write, At, Shape, TypeOK, CallShape
  <2> QED
    BY <1>1, <1>6, <2>1, HeapIsTyped, ReturnShape, ShapeHeld DEF Write, Shape, TypeOK
<1> QED
  BY <1>4, <1>5, <1>6

LEMMA ShapeCall ==
    ASSUME Shape, NEW t \in Threads, CallStep(t)
    PROVE  Shape'
BY ShapeLookup, ShapeRead, ShapeConfirm, ShapeSettle, ShapeOther, ShapeTable DEF CallStep

LEMMA ShapeCreate ==
    ASSUME Shape, NEW st \in {"pending", "circuit_breaker"}, CreateSwap(st)
    PROVE  Shape'
<1>1. PICK n \in Amounts :
          LET o == [status |-> st, admin |-> "absent", net |-> n] IN
          /\ row' = AddSwap(o) /\ cached' = Unused /\ heap' = [heap EXCEPT ![Unused] = o]
  BY DEF CreateSwap
<1> DEFINE o == [status |-> st, admin |-> "absent", net |-> n]
<1>2. o \in Swap /\ AddSwap(o) \in Row
  BY DEF Swap, AddSwap, Row, SwapStatuses, AdminMarks
<1>3. ref[Settler] = NoObject /\ Settler \in Threads
  BY DEF CreateSwap, Shape, CallShape, TypeOK, Threads
<1>4. Unused \in Objects /\ Unused # NoObject /\ \A u \in Threads : ref[u] # Unused
  BY <1>3, UnusedIsFree, ObjectsAreThere DEF Shape
<1> HIDE DEF o
<1>5. TypeOK'
  BY <1>1, <1>2, <1>4 DEF CreateSwap, Keep, callVars, Shape, TypeOK, o
<1>6. CacheShape' /\ \A u \in Threads : CallShape(u)'
  BY <1>1, <1>2, <1>4, ObjectsAreThere
     DEF CreateSwap, callVars, Shape, TypeOK, CacheShape, CallShape, o
<1> QED
  BY <1>5, <1>6 DEF Shape

LEMMA ShapeExpire ==
    ASSUME Shape, ReadExpired \/ Expire
    PROVE  Shape'
<1>1. Cleaner \in Threads
  BY DEF Threads
<1>2. CASE ReadExpired
  <2>1. row \in Row
    BY <1>2 DEF ReadExpired, Shape, TypeOK
  <2>2. [row.data EXCEPT !.status = "timed_out"] \in Swap
    BY <2>1 DEF Row, Swap, SwapStatuses
  <2>3. [col |-> "timed_out", data |-> [row.data EXCEPT !.status = "timed_out"]] \in Row
    BY <2>2 DEF Row, SwapStatuses
  <2>4. TypeOK'
    BY <1>1, <1>2, <2>3 DEF ReadExpired, Remember, Meets, Shape, TypeOK, Places
  <2>5. CallShape(Cleaner)' /\ CacheShape'
    BY <1>1, <1>2, <2>3, ObjectsAreThere
       DEF ReadExpired, At, Shape, TypeOK, CallShape, CacheShape, Holding
  <2> QED
    BY <1>1, <1>2, <2>4, <2>5, StepShape DEF ReadExpired, Shape, TypeOK, CallShape
<1>3. CASE Expire
  <2>1. /\ heap \in [Objects -> Swap \cup {None}] /\ Heap(heap)
        /\ cached' = NoObject
        /\ out[Cleaner] \in Row /\ row' \in Row
    BY <1>1, <1>3 DEF Expire, At, Shape, TypeOK, CallShape
  <2>2. heap' \in [Objects -> Swap \cup {None}]
    BY <2>1, HeapStep
  <2>3. TypeOK'
    BY <1>1, <1>3, <2>1, <2>2, ReturnShape DEF Expire, Keep, Shape, TypeOK
  <2>4. CallShape(Cleaner)'
    BY <1>1, <1>3, ReturnShape DEF Expire, Shape, CallShape, Holding
  <2>5. \A u \in Threads \ {Cleaner} : ref[u] \in Objects => heap'[ref[u]] # None
    BY <1>1, <1>3, <2>1, HeapStep, ReturnShape, ObjectsAreThere DEF Expire, Shape, CallShape
  <2> QED
    BY <1>1, <1>3, <2>1, <2>3, <2>4, <2>5, ReturnShape, StepShape, ObjectsAreThere
       DEF Expire, Shape, CacheShape
<1> QED
  BY <1>2, <1>3

LEMMA ShapeNext == Shape /\ [Next]_vars => Shape'
<1> SUFFICES ASSUME Shape, [Next]_vars
             PROVE  Shape'
  OBVIOUS
<1>1. Settler \in Threads /\ Cleaner \in Threads /\ Callers \subseteq Threads
  BY DEF Threads
<1>2. {"confirm", "cancel", "settle"} \cup ByAdmin \subseteq Calls
  BY ByAdminKnown DEF Calls
<1>3. CASE \E st \in {"pending", "circuit_breaker"} : CreateSwap(st)
  BY <1>3, ShapeCreate
<1>4. CASE Deposit
  BY <1>4 DEF Deposit, callVars, viewVars, Transactions, Shape, TypeOK, CacheShape, CallShape
<1>5. CASE \E t \in Callers : \/ \E call \in {"confirm", "cancel"} : UserCall(t, call)
                              \/ \E call \in ByAdmin : AdminCall(t, call)
  BY <1>1, <1>2, <1>5, ShapeBegin DEF UserCall, AdminCall, Shape, TypeOK
<1>6. CASE StartSweep \/ StartScan
  BY <1>6 DEF StartSweep, StartScan, Looks, Meets, callVars, Shape, TypeOK, CacheShape, CallShape
<1>7. CASE LoopCall(Settler, "settle") \/ LoopCall(Cleaner, "confirm")
  BY <1>1, <1>2, <1>7, ShapeBegin DEF LoopCall, Shape, TypeOK
<1>8. CASE ReadExpired \/ Expire
  BY <1>8, ShapeExpire
<1>9. CASE \E t \in Threads : CallStep(t)
  BY <1>9, ShapeCall
<1>10. CASE UNCHANGED vars
  BY <1>10 DEF vars, callVars, viewVars, Shape, TypeOK, CacheShape, CallShape
<1> QED
  BY <1>3, <1>4, <1>5, <1>6, <1>7, <1>8, <1>9, <1>10 DEF Next

LEMMA ShapeAlways == Spec => []Shape
BY ShapeInit, ShapeNext, PTL DEF Spec

\* Every reachable state is well typed, however calls overlap: no call writes a
\* row or works on an object that is not there.
THEOREM TypeCorrect == Spec => []TypeOK
<1>1. Shape => TypeOK
  BY DEF Shape
<1> QED
  BY <1>1, ShapeAlways, PTL

-----------------------------------------------------------------------------
(* The statuses that are written, in memory and in the table. *)

\* Every status there is, of an object, the row, or a row about to be written.
RowIn(r, S) == r # None => r.col \in S /\ r.data.status \in S
StatusesIn(S) ==
    /\ \A o \in Objects : heap[o] # None => heap[o].status \in S
    /\ RowIn(row, S)
    /\ \A t \in Threads : RowIn(out[t], S)

\* The statuses a swap can get to without a settlement or an administrator.
Quiet == {"pending", "awaiting_deposit", "circuit_breaker", "cancelled", "timed_out",
          "late_deposit"}

\* Nobody is past the wallet's answer, and no administrator is about to set a status.
NobodyPays == \A t \in Threads : pc[t] \notin {"sent", "complete"} /\ op[t] \notin AdminTargets

\* The objects a step leaves are those of h.
LEMMA HeapIn ==
    ASSUME NEW S, NEW h, Heap(h), \A o \in Objects : h[o] # None => h[o].status \in S
    PROVE  \A o \in Objects : heap'[o] # None => heap'[o].status \in S
BY DEF Heap

LEMMA SetIn ==
    ASSUME Shape, NEW S, StatusesIn(S), NEW t \in Threads, pc[t] \in Holding,
           NEW st \in SwapStatuses, st \in S
    PROVE  \A o \in Objects : SetStatus(t, st)[o] # None => SetStatus(t, st)[o].status \in S
<1>1. /\ SetStatus(t, st)[ref[t]] = [Object(t) EXCEPT !.status = st] /\ Object(t) \in Swap
      /\ \A o \in Objects \ {ref[t]} : SetStatus(t, st)[o] = heap[o]
  BY HeldObject
<1>2. SetStatus(t, st)[ref[t]].status = st
  BY <1>1 DEF Swap
<1> QED
  BY <1>1, <1>2 DEF StatusesIn

\* A step that writes no row.
LEMMA OutIn ==
    ASSUME Shape, NEW S, StatusesIn(S), NEW t \in Threads, Return(t) \/ UNCHANGED out
    PROVE  \A u \in Threads : RowIn(out'[u], S)
<1>1. \A u \in Threads : out'[u] \in {out[u], None}
  BY DEF Return, Shape, TypeOK
<1> QED
  BY <1>1 DEF StatusesIn, RowIn

\* What the check lets through is recorded.
LEMMA EnoughClears ==
    ASSUME NEW t, \E x \in Named(t) : EnoughConfirmations(x) /\ Record(x)
    PROVE  cleared'
BY DEF EnoughConfirmations, Record

\* A call keeps within a set of statuses that has what it writes.
LEMMA CallIn ==
    ASSUME Shape, NEW S, Quiet \subseteq S, StatusesIn(S), NobodyPays,
           cleared' => "processing" \in S,
           (\E t \in Threads : op[t] = "settle") => {"delayed", "failed"} \subseteq S,
           NEW t \in Threads, CallStep(t)
    PROVE  StatusesIn(S)'
<1>1. Quiet \cup {"processing", "delayed", "failed"} \subseteq SwapStatuses
  BY DEF Quiet, SwapStatuses
<1>2. CASE Lookup(t)
  BY <1>2, HeapIn, OutIn DEF Lookup, StatusesIn
<1>3. CASE Read(t)
  <2> DEFINE h == [heap EXCEPT ![Unused] = GetSwap(row)]
  <2>1. row \in Row /\ GetSwap(row).status = row.data.status /\ row # None
    BY <1>3, ReadObject, ObjectsAreThere DEF Read, GetSwap, Row, Swap
  <2>2. \A o \in Objects : h[o] # None => h[o].status \in S
    BY <2>1 DEF Shape, TypeOK, StatusesIn, RowIn
  <2>3. Heap(h) /\ UNCHANGED <<row, out>>
    BY <1>3 DEF Read
  <2> HIDE DEF h
  <2> QED
    BY <2>2, <2>3, HeapIn, OutIn DEF StatusesIn
<1>4. CASE Route(t)
  <2>1. Heap(heap) /\ UNCHANGED row /\ (Return(t) \/ UNCHANGED out)
    BY <1>4 DEF Route, Goto
  <2> QED
    BY <2>1, HeapIn, OutIn DEF StatusesIn
<1>5. CASE Late(t)
  <2>1. pc[t] \in Holding /\ "late_deposit" \in S /\ "late_deposit" \in SwapStatuses
    BY <1>5 DEF Late, Holding, Quiet, SwapStatuses
  <2>2. Heap(SetStatus(t, "late_deposit")) /\ UNCHANGED <<row, out>>
    BY <1>5 DEF Late
  <2> QED
    BY <2>1, <2>2, SetIn, HeapIn, OutIn DEF StatusesIn
<1>6. CASE Confirmations(t)
  <2>1. pc[t] \in Holding
    BY <1>6 DEF Confirmations, At, Holding
  <2>2. UNCHANGED row /\ (Return(t) \/ UNCHANGED out)
    BY <1>6 DEF Confirmations, Goto
  <2>3. CASE Heap(heap)
    BY <2>2, <2>3, HeapIn, OutIn DEF StatusesIn
  <2>4. CASE Heap(SetStatus(t, "awaiting_deposit"))
    <3>1. "awaiting_deposit" \in S /\ "awaiting_deposit" \in SwapStatuses
      BY DEF Quiet, SwapStatuses
    <3> QED
      BY <2>1, <2>2, <2>4, <3>1, SetIn, HeapIn, OutIn DEF StatusesIn
  <2>5. CASE cleared' /\ Heap(SetStatus(t, "processing"))
    <3>1. "processing" \in S /\ "processing" \in SwapStatuses
      BY <2>5 DEF SwapStatuses
    <3> QED
      BY <2>1, <2>2, <2>5, <3>1, SetIn, HeapIn, OutIn DEF StatusesIn
  <2> QED
    BY <1>6, <2>3, <2>4, <2>5, EnoughClears DEF Confirmations
<1>7. CASE RepriceFails(t) \/ Pay(t)
  <2>1. Heap(heap) /\ UNCHANGED row /\ (Return(t) \/ UNCHANGED out)
    BY <1>7 DEF RepriceFails, Pay, Elsewhere, Goto
  <2> QED
    BY <2>1, HeapIn, OutIn DEF StatusesIn
<1>8. CASE Delay(t) \/ Fail(t)
  <2>1. pc[t] \in Holding /\ {"delayed", "failed"} \subseteq S
    BY <1>8 DEF Delay, DelayTo, Fail, Settling, At, Holding
  <2>2. /\ Heap(SetStatus(t, "delayed")) \/ Heap(SetStatus(t, "failed"))
        /\ UNCHANGED row /\ (Return(t) \/ UNCHANGED out)
    BY <1>8 DEF Delay, DelayTo, Fail, Elsewhere, Goto
  <2> QED
    BY <1>1, <2>1, <2>2, SetIn, HeapIn, OutIn DEF StatusesIn
<1>9. CASE Cancel(t)
  <2>1. pc[t] \in Holding /\ "cancelled" \in S /\ "cancelled" \in SwapStatuses
    BY <1>9 DEF Cancel, At, Holding, Quiet, SwapStatuses
  <2>2. /\ Heap(SetStatus(t, "cancelled")) \/ Heap(heap)
        /\ UNCHANGED row /\ (Return(t) \/ UNCHANGED out)
    BY <1>9 DEF Cancel, Goto
  <2>3. CASE Heap(heap)
    BY <2>2, <2>3, HeapIn, OutIn DEF StatusesIn
  <2>4. CASE Heap(SetStatus(t, "cancelled"))
    BY <2>1, <2>2, <2>4, SetIn, HeapIn, OutIn DEF StatusesIn
  <2> QED
    BY <2>2, <2>3, <2>4
<1>10. CASE Update(t)
  <2>1. Object(t) \in Swap /\ Object(t) # None /\ row \in Row /\ row # None
    BY <1>10, HeldObject, ObjectsAreThere DEF Update, At, Holding
  <2>2. Object(t).status \in S
    BY <1>10, <2>1, HeldObject DEF Update, At, Holding, StatusesIn, Object
  <2>3. RowIn(UpdateSwap(row, Object(t)), S)
    BY <2>1, <2>2 DEF RowIn, UpdateSwap, Merge, Swap
  <2> QED
    BY <1>10, <2>3 DEF Update, Shape, TypeOK, StatusesIn
<1>11. CASE Write(t)
  <2>1. Heap(heap) /\ row' = out[t] /\ Return(t)
    BY <1>11 DEF Write
  <2> QED
    BY <2>1, HeapIn, OutIn DEF StatusesIn
<1>12. ~ (Answered(t) \/ Complete(t) \/ SetSwapStatus(t))
  BY DEF NobodyPays, Answered, Complete, SetSwapStatus, At
<1> QED
  BY <1>2, <1>3, <1>4, <1>5, <1>6, <1>7, <1>8, <1>9, <1>10, <1>11, <1>12 DEF CallStep

\* So does every other step.
LEMMA OtherIn ==
    ASSUME Shape, NEW S, Quiet \subseteq S, StatusesIn(S),
           \/ \E st \in {"pending", "circuit_breaker"} : CreateSwap(st)
           \/ ReadExpired \/ Expire
           \/ UNCHANGED <<row, heap, out>>
    PROVE  StatusesIn(S)'
<1>1. CASE \E st \in {"pending", "circuit_breaker"} : CreateSwap(st)
  <2>1. PICK st \in {"pending", "circuit_breaker"}, n \in Amounts :
            LET o == [status |-> st, admin |-> "absent", net |-> n] IN
            row' = AddSwap(o) /\ heap' = [heap EXCEPT ![Unused] = o] /\ UNCHANGED out
    BY <1>1 DEF CreateSwap, callVars
  <2>2. st \in S /\ "pending" \in S
    BY DEF Quiet
  <2> QED
    BY <2>1, <2>2 DEF StatusesIn, RowIn, AddSwap, Shape, TypeOK
<1>2. CASE ReadExpired
  <2>1. row \in Row /\ "timed_out" \in S
    BY <1>2 DEF ReadExpired, Shape, TypeOK, Quiet
  <2>2. RowIn([col |-> "timed_out", data |-> [row.data EXCEPT !.status = "timed_out"]], S)
    BY <2>1 DEF RowIn, Row, Swap
  <2> QED
    BY <1>2, <2>2 DEF ReadExpired, StatusesIn, Shape, TypeOK
<1>3. CASE Expire
  <2>1. Heap(heap) /\ row' = out[Cleaner] /\ Return(Cleaner) /\ Cleaner \in Threads
    BY <1>3 DEF Expire, Threads
  <2> QED
    BY <2>1, HeapIn, OutIn DEF StatusesIn
<1>4. CASE UNCHANGED <<row, heap, out>>
  BY <1>4 DEF StatusesIn
<1> QED
  BY <1>1, <1>2, <1>3, <1>4

-----------------------------------------------------------------------------
(* Payouts are backed, and completed rows were paid. *)

UnbackedIsQuiet ==
    ~ cleared /\ ~ touched =>
        /\ sends = 0
        /\ Settler \notin due
        /\ StatusesIn(Quiet)
        /\ NobodyPays
        /\ \A t \in Threads : op[t] # "settle"

NotCompleted == SwapStatuses \ {"completed"}

UnpaidIsOpen == sends = 0 /\ ~ touched => StatusesIn(NotCompleted) /\ NobodyPays

\* The steps that are not part of a call in progress.
Outer ==
    \/ \E st \in {"pending", "circuit_breaker"} : CreateSwap(st)
    \/ Deposit
    \/ \E t \in Callers :
          \/ \E call \in {"confirm", "cancel"} : UserCall(t, call)
          \/ \E call \in ByAdmin : AdminCall(t, call)
    \/ StartSweep \/ LoopCall(Settler, "settle")
    \/ StartScan \/ LoopCall(Cleaner, "confirm")
    \/ ReadExpired \/ Expire

LEMMA NoTargets == {"none", "confirm", "settle", "cancel", "drop"} \cap AdminTargets = {}
BY TargetsAreStatuses DEF SwapStatuses

\* A step outside calls either creates or expires the swap or writes nothing; it
\* leaves every call where it is or begins one.
LEMMA OuterStep ==
    ASSUME Shape, Outer
    PROVE  /\ \/ \E st \in {"pending", "circuit_breaker"} : CreateSwap(st)
              \/ ReadExpired \/ Expire
              \/ UNCHANGED <<row, heap, out>>
           /\ UNCHANGED sends
           /\ UNCHANGED cleared
           /\ touched => touched'
           /\ ~ touched' /\ NobodyPays => NobodyPays'
<1>1. \/ \E st \in {"pending", "circuit_breaker"} : CreateSwap(st)
      \/ ReadExpired \/ Expire
      \/ UNCHANGED <<row, heap, out>>
  BY DEF Outer, Deposit, UserCall, AdminCall, StartSweep, LoopCall, StartScan, Begin, callVars
<1>2. UNCHANGED <<sends, cleared>> /\ (touched => touched')
  BY DEF Outer, CreateSwap, Deposit, UserCall, AdminCall, StartSweep, LoopCall, StartScan, Begin,
         ReadExpired, Expire
<1>3. ASSUME ~ touched', NobodyPays
      PROVE  NobodyPays'
  <2>1. ASSUME NEW t \in Threads, NEW call \in {"confirm", "cancel", "settle"}, Begin(t, call)
        PROVE  NobodyPays'
    BY <1>3, <2>1, NoTargets DEF Begin, NobodyPays, Shape, TypeOK
  <2>2. CASE ReadExpired
    BY <1>3, <2>2 DEF ReadExpired, NobodyPays, Shape, TypeOK
  <2>3. CASE Expire
    BY <1>3, <2>3, NoTargets DEF Expire, Return, NobodyPays, Shape, TypeOK
  <2>4. CASE UNCHANGED <<op, pc>>
    BY <1>3, <2>4 DEF NobodyPays
  <2>5. Settler \in Threads /\ Cleaner \in Threads /\ Callers \subseteq Threads
    BY DEF Threads
  <2> QED
    BY <1>3, <2>1, <2>2, <2>3, <2>4, <2>5
       DEF Outer, CreateSwap, Deposit, UserCall, AdminCall, StartSweep, LoopCall, StartScan,
           callVars
<1> QED
  BY <1>1, <1>2, <1>3

LEMMA UnbackedCall ==
    ASSUME Shape, UnbackedIsQuiet, NEW t \in Threads, CallStep(t)
    PROVE  UnbackedIsQuiet'
<1>1. UNCHANGED <<touched, due>> /\ (cleared => cleared')
  BY DEF Record, Shape, TypeOK, CallStep, Lookup, Read, Route, Late, Confirmations,
         RepriceFails, Pay, Delay, DelayTo,
         Fail, Answered, Elsewhere, Cancel, SetSwapStatus, Update, Complete, Write
<1> SUFFICES ASSUME ~ cleared', ~ touched
             PROVE  sends' = 0 /\ StatusesIn(Quiet)' /\ NobodyPays'
                    /\ \A u \in Threads : op'[u] # "settle"
  BY <1>1 DEF UnbackedIsQuiet
<1>2. /\ sends = 0 /\ StatusesIn(Quiet) /\ NobodyPays
      /\ \A u \in Threads : op[u] # "settle"
  BY <1>1 DEF UnbackedIsQuiet
<1>3. StatusesIn(Quiet)'
  BY <1>2, CallIn
<1>4. ~ (RepriceFails(t) \/ Pay(t) \/ Delay(t) \/ Fail(t) \/ Answered(t) \/ Complete(t)
         \/ SetSwapStatus(t))
  BY <1>2 DEF RepriceFails, Pay, Delay, DelayTo, Fail, Settling, Answered, Complete,
              SetSwapStatus, NobodyPays, At
<1>5. sends' = 0
  BY <1>2, <1>4 DEF CallStep, Lookup, Read, Route, Late, Confirmations, Cancel, Update, Write
<1>6. /\ \A u \in Threads \ {t} : pc'[u] = pc[u] /\ op'[u] = op[u]
      /\ op'[t] \in {op[t], "none", "drop"} /\ pc'[t] \notin {"sent", "complete"}
  <2>1. CASE Confirmations(t)
    BY <2>1, EnoughClears DEF Confirmations, Goto, Return, Shape, TypeOK
  <2>2. CASE Lookup(t) \/ Read(t) \/ Late(t) \/ Update(t)
    BY <2>2 DEF Lookup, Read, Late, Update, Shape, TypeOK
  <2>3. CASE Route(t)
    BY <2>3 DEF Route, Goto, Return, Shape, TypeOK
  <2>4. CASE Cancel(t) \/ Write(t)
    BY <2>4 DEF Cancel, Write, Goto, Return, Shape, TypeOK
  <2> QED
    BY <1>4, <2>1, <2>2, <2>3, <2>4 DEF CallStep
<1>7. NobodyPays' /\ \A u \in Threads : op'[u] # "settle"
  BY <1>2, <1>6, NoTargets DEF NobodyPays
<1> QED
  BY <1>3, <1>5, <1>7

LEMMA UnbackedOuter ==
    ASSUME Shape, UnbackedIsQuiet, Outer
    PROVE  UnbackedIsQuiet'
<1> SUFFICES ASSUME ~ cleared', ~ touched'
             PROVE  /\ sends' = 0 /\ Settler \notin due' /\ StatusesIn(Quiet)' /\ NobodyPays'
                    /\ \A u \in Threads : op'[u] # "settle"
  BY DEF UnbackedIsQuiet
<1>1. /\ sends = 0 /\ Settler \notin due /\ StatusesIn(Quiet) /\ NobodyPays
      /\ \A u \in Threads : op[u] # "settle"
  BY OuterStep DEF UnbackedIsQuiet
<1>2. StatusesIn(Quiet)'
  BY <1>1, OuterStep, OtherIn
<1>3. ~ StartSweep /\ ~ LoopCall(Settler, "settle")
  BY <1>1 DEF StartSweep, LoopCall, StatusesIn, RowIn, Quiet, Shape, TypeOK, CacheShape
<1>4. Settler \notin due'
  BY <1>1, <1>3, LoopsAreApart
     DEF Outer, CreateSwap, Deposit, UserCall, AdminCall, LoopCall, StartScan, ReadExpired, Expire
<1>5. \A u \in Threads : op'[u] # "settle"
  <2>1. ASSUME NEW t \in Threads, NEW call \in {"confirm", "cancel"}, Begin(t, call)
        PROVE  \A u \in Threads : op'[u] # "settle"
    BY <1>1, <2>1 DEF Begin, Shape, TypeOK
  <2>2. CASE Expire
    BY <1>1, <2>2 DEF Expire, Return, Shape, TypeOK
  <2>3. Cleaner \in Threads /\ Callers \subseteq Threads
    BY DEF Threads
  <2> QED
    BY <1>1, <1>3, <2>1, <2>2, <2>3
       DEF Outer, CreateSwap, Deposit, UserCall, AdminCall, LoopCall, StartScan, ReadExpired,
           callVars
<1> QED
  BY <1>1, <1>2, <1>4, <1>5, OuterStep

LEMMA UnbackedNext == Shape /\ UnbackedIsQuiet /\ [Next]_vars => UnbackedIsQuiet'
<1> SUFFICES ASSUME Shape, UnbackedIsQuiet, [Next]_vars
             PROVE  UnbackedIsQuiet'
  OBVIOUS
<1>1. CASE \E t \in Threads : CallStep(t)
  BY <1>1, UnbackedCall
<1>2. CASE Outer
  BY <1>2, UnbackedOuter
<1>3. CASE UNCHANGED vars
  BY <1>3 DEF vars, callVars, UnbackedIsQuiet, StatusesIn, RowIn, NobodyPays
<1> QED
  BY <1>1, <1>2, <1>3 DEF Next, Outer

\* However threads interleave, the wallet pays only a swap that went to settlement on
\* a transaction with the required confirmations, or that an administrator acted on.
THEOREM PayoutsAreBacked == Spec => []NoUnbackedPayout
<1>1. Init => UnbackedIsQuiet
  BY NoTargets DEF Init, UnbackedIsQuiet, StatusesIn, RowIn, NobodyPays
<1>2. UnbackedIsQuiet => NoUnbackedPayout
  BY DEF UnbackedIsQuiet, NoUnbackedPayout
<1> QED
  BY <1>1, <1>2, ShapeAlways, UnbackedNext, PTL DEF Spec

LEMMA UnpaidNext == Shape /\ UnpaidIsOpen /\ [Next]_vars => UnpaidIsOpen'
<1> SUFFICES ASSUME Shape, UnpaidIsOpen, [Next]_vars, sends' = 0, ~ touched'
             PROVE  StatusesIn(NotCompleted)' /\ NobodyPays'
  BY DEF UnpaidIsOpen
<1>0. Quiet \cup {"processing", "delayed", "failed"} \subseteq NotCompleted
  BY DEF Quiet, NotCompleted, SwapStatuses
<1>1. ASSUME NEW t \in Threads, CallStep(t)
      PROVE  StatusesIn(NotCompleted)' /\ NobodyPays'
  <2>1. touched' = touched /\ sends' \in {sends, sends + 1} /\ sends \in Nat
    BY <1>1, MaxSendsIsNat
       DEF CallStep, Lookup, Read, Route, Late, Confirmations, RepriceFails, Pay, Delay, DelayTo,
           Fail, Answered, Elsewhere, Cancel, SetSwapStatus, Update, Complete, Write, Shape, TypeOK
  <2>2. StatusesIn(NotCompleted) /\ NobodyPays
    BY <2>1 DEF UnpaidIsOpen
  <2>3. StatusesIn(NotCompleted)'
    BY <1>0, <1>1, <2>2, CallIn
  <2>4. ~ (Pay(t) \/ Answered(t) \/ Complete(t) \/ SetSwapStatus(t))
    BY <2>1, <2>2 DEF Pay, Answered, Complete, SetSwapStatus, NobodyPays, At
  <2>5. /\ \A u \in Threads \ {t} : pc'[u] = pc[u] /\ op'[u] = op[u]
        /\ op'[t] \in {op[t], "none", "drop", "settle"} /\ pc'[t] \notin {"sent", "complete"}
    <3>1. CASE Confirmations(t)
      BY <3>1 DEF Confirmations, Goto, Return, Shape, TypeOK
    <3>2. CASE Lookup(t) \/ Read(t) \/ Late(t) \/ Update(t)
      BY <3>2 DEF Lookup, Read, Late, Update, Shape, TypeOK
    <3>3. CASE Route(t)
      BY <3>3 DEF Route, Goto, Return, Shape, TypeOK
    <3>4. CASE Cancel(t) \/ Write(t)
      BY <3>4 DEF Cancel, Write, Goto, Return, Shape, TypeOK
    <3>5. CASE RepriceFails(t) \/ Delay(t) \/ Fail(t)
      BY <3>5 DEF RepriceFails, Delay, DelayTo, Fail, Goto, Return, Shape, TypeOK
    <3> QED
      BY <1>1, <2>4, <3>1, <3>2, <3>3, <3>4, <3>5 DEF CallStep
  <2>6. NobodyPays'
    BY <2>2, <2>5, NoTargets DEF NobodyPays
  <2> QED
    BY <2>3, <2>6
<1>2. CASE Outer
  <2>1. StatusesIn(NotCompleted) /\ NobodyPays
    BY <1>2, OuterStep DEF UnpaidIsOpen
  <2> QED
    BY <1>0, <1>2, <2>1, OuterStep, OtherIn
<1>3. CASE UNCHANGED vars
  BY <1>3 DEF vars, callVars, UnpaidIsOpen, StatusesIn, RowIn, NobodyPays
<1> QED
  BY <1>1, <1>2, <1>3 DEF Next, Outer

\* However threads interleave, a row that reads "completed" was paid, or an
\* administrator acted on the swap.
THEOREM CompletedIsPaid == Spec => []CompletedMeansPaid
<1>1. Init => UnpaidIsOpen
  BY NoTargets DEF Init, UnpaidIsOpen, StatusesIn, RowIn, NobodyPays
<1>2. Shape /\ UnpaidIsOpen => CompletedMeansPaid
  BY MaxSendsIsNat
     DEF UnpaidIsOpen, StatusesIn, RowIn, NotCompleted, CompletedMeansPaid, Shape, TypeOK
<1> QED
  BY <1>1, <1>2, ShapeAlways, UnpaidNext, PTL DEF Spec

-----------------------------------------------------------------------------
(* Until calls overlap, one payout.  Between calls the cache agrees with the row, a *)
(* swap a sweep has found cannot be confirmed any more, and a paid swap is recorded *)
(* and gone from both; a call keeps this in mind until it returns.                  *)

Exclusive ==
    ~ overlapped => \A t, u \in Threads : pc[t] # "idle" /\ pc[u] # "idle" => t = u

Agrees(r) ==
    r # None => r.col = r.data.status \/ (r.col = "pending" /\ r.data.status = "circuit_breaker")

Done(r) == r # None /\ r.col = "completed" /\ r.data.status = "completed"

Orderly ==
    /\ sends > 0 => sends = 1 /\ Done(row) /\ cached = NoObject /\ Settler \notin due
    /\ cached # NoObject => heap[cached].status \in {row.data.status, "failed"}
    /\ Settler \in due /\ cached # NoObject => heap[cached].status \notin Unconfirmed

\* Nothing was paid, and nothing else will settle the swap.
Open == sends = 0 /\ Settler \notin due

AtPlace(t) ==
    /\ pc[t] \in {"lookup", "read", "found"} =>
          op[t] \in {"confirm", "cancel", "settle"} /\ (op[t] # "settle" => Orderly)
    /\ pc[t] \in {"lookup", "read", "found"} /\ op[t] = "settle" =>
          /\ Open
          /\ cached # NoObject => heap[cached].status \in {row.data.status, "failed", "processing"}
    /\ pc[t] = "read" => cached = NoObject
    /\ pc[t] = "found" =>
          \/ ref[t] = cached
          \/ op[t] # "settle" /\ cached = NoObject /\ heap[ref[t]].status = row.data.status
    /\ pc[t] = "confirmations" =>
          op[t] = "confirm" /\ Orderly /\ ref[t] = cached /\ heap[cached].status \in Unconfirmed
    /\ pc[t] = "late_stored" => op[t] = "confirm" /\ sends = 0 /\ cached = NoObject
    /\ pc[t] = "late_cached" => sends = 0
    /\ pc[t] = "sent" => op[t] = "settle" /\ sends = 1 /\ Settler \notin due
    /\ pc[t] = "complete" =>
          op[t] = "settle" /\ sends = 1 /\ Settler \notin due /\ cached = NoObject
    /\ pc[t] = "update" =>
          /\ sends = 0
          /\ op[t] = "drop" \/ cached = NoObject \/ (ref[t] = cached /\ Settler \notin due)
    /\ pc[t] = "write" =>
          /\ out[t].col = out[t].data.status
          /\ \/ sends = 0
             \/ sends = 1 /\ Done(out[t]) /\ cached = NoObject /\ Settler \notin due
          /\ \/ op[t] = "drop" \/ cached = NoObject
             \/ heap[cached].status = out[t].data.status /\ Settler \notin due
    /\ pc[t] = "expire" => sends = 0 /\ out[t].col = out[t].data.status

OneAtATime ==
    ~ touched /\ ~ overlapped =>
        /\ Agrees(row)
        /\ Settler \in due => row # None
        /\ Busy = {} => Orderly
        /\ \A t \in Threads : pc[t] # "idle" => AtPlace(t)

\* Calls that have overlapped have done so for good; a step outside calls that does
\* not make them overlap finds no call in progress, but for the end of an expiry and
\* the coming of a deposit.
LEMMA OverlapLasts == Shape /\ [Next]_vars /\ overlapped => overlapped'
BY DEF Next, CreateSwap, Deposit, UserCall, AdminCall, StartSweep, StartScan, LoopCall, Begin,
       ReadExpired, Expire, CallStep, Lookup, Read, Route, Late, Confirmations, RepriceFails, Pay,
       Delay, DelayTo, Fail, Answered, Cancel, SetSwapStatus, Update, Complete, Write,
       Keep, Remember, Looks, Meets, vars, viewVars, Shape, TypeOK

LEMMA MeetsNone ==
    ASSUME ~ overlapped', Shape,
           \/ \E t \in Threads : \E call : Begin(t, call)
           \/ StartSweep \/ StartScan \/ ReadExpired
    PROVE  Busy = {}
BY DEF Begin, StartSweep, StartScan, ReadExpired, Remember, Looks, Meets, Shape, TypeOK

\* There is no swap to call about before it is created.
LEMMA CreateMeetsNone ==
    ASSUME Shape, NEW st, CreateSwap(st)
    PROVE  Busy = {}
BY DEF CreateSwap, Busy, Shape, CallShape

LEMMA ExclusiveNext == Shape /\ Exclusive /\ [Next]_vars => Exclusive'
<1> SUFFICES ASSUME Shape, Exclusive, [Next]_vars, ~ overlapped'
             PROVE  Exclusive'
  BY DEF Exclusive
<1>0. ~ overlapped
  BY OverlapLasts
<1>1. ASSUME NEW t \in Threads, CallStep(t)
      PROVE  Exclusive'
  <2>1. pc[t] # "idle"
    BY <1>1 DEF CallStep, Lookup, Read, Route, Late, Confirmations, RepriceFails, Pay, Delay,
           DelayTo, Fail, Answered, Settling, Cancel, SetSwapStatus, Update, Complete, Write, At
  <2>2. \A u \in Threads \ {t} : pc'[u] = pc[u]
    BY <1>1 DEF CallStep, Lookup, Read, Route, Late, Confirmations, RepriceFails, Pay, Delay,
           DelayTo, Fail, Answered, Cancel, SetSwapStatus, Update, Complete, Write, Goto, Return,
           Shape, TypeOK
  <2> QED
    BY <1>0, <2>1, <2>2 DEF Exclusive
<1>2. ASSUME NEW t \in Threads, Busy = {}, \A u \in Threads \ {t} : pc'[u] = pc[u]
      PROVE  Exclusive'
  BY <1>2 DEF Busy, Exclusive
<1>3. CASE Outer
  <2>1. Settler \in Threads /\ Cleaner \in Threads /\ Callers \subseteq Threads
    BY DEF Threads
  <2>2. CASE UNCHANGED pc
    BY <1>0, <2>2 DEF Exclusive
  <2>4. CASE Expire
    BY <1>0, <2>1, <2>4 DEF Expire, Return, Exclusive, Shape, TypeOK
  <2>5. CASE ReadExpired
    BY <1>2, <2>1, <2>5, MeetsNone DEF ReadExpired, Shape, TypeOK
  <2>6. ASSUME NEW t \in Threads, NEW call, Begin(t, call)
        PROVE  Exclusive'
    BY <1>2, <2>6, MeetsNone DEF Begin, Shape, TypeOK
  <2> QED
    BY <1>3, <2>1, <2>2, <2>4, <2>5, <2>6
       DEF Outer, CreateSwap, Deposit, UserCall, AdminCall, StartSweep, LoopCall, StartScan,
           callVars
<1>4. CASE UNCHANGED vars
  BY <1>4 DEF vars, callVars, viewVars, Exclusive
<1> QED
  BY <1>1, <1>3, <1>4 DEF Next, Outer

\* For the busy thread only its own place is to be shown.
LEMMA OneStep ==
    ASSUME Shape, NEW t \in Threads,
           \A u \in Threads \ {t} : pc[u] = "idle" /\ pc'[u] = pc[u],
           Agrees(row)', Settler \in due' => row' # None,
           pc'[t] = "idle" => Orderly',
           pc'[t] # "idle" => AtPlace(t)'
    PROVE  OneAtATime'
<1>1. Busy' = {} => pc'[t] = "idle"
  BY DEF Busy
<1> QED
  BY <1>1 DEF OneAtATime

LEMMA OneConfirm ==
    ASSUME Shape, OneAtATime, ~ touched, ~ overlapped, NEW t \in Threads, AtPlace(t),
           \A u \in Threads \ {t} : pc[u] = "idle",
           Lookup(t) \/ Read(t) \/ Route(t) \/ Late(t) \/ Confirmations(t)
    PROVE  OneAtATime'
<1>1. CASE Lookup(t)
  <2>1. heap \in [Objects -> Swap \cup {None}] /\ Heap(heap) /\ cached' = cached
    BY <1>1 DEF Lookup, Shape, TypeOK
  <2>2. cached # NoObject => heap'[cached] = heap[cached]
    BY <2>1, HeapStep DEF Shape, TypeOK
  <2>3. /\ UNCHANGED <<row, sends, due>> /\ op' = op /\ ref'[t] = cached /\ pc[t] = "lookup"
        /\ pc'[t] = (IF cached = NoObject THEN "read" ELSE "found")
        /\ \A u \in Threads \ {t} : pc'[u] = pc[u]
    BY <1>1 DEF Lookup, At, Shape, TypeOK
  <2>4. Orderly => Orderly'
    BY <2>1, <2>2, <2>3 DEF Orderly
  <2>5. AtPlace(t)'
    BY <2>1, <2>2, <2>3, <2>4 DEF AtPlace, Open
  <2> QED
    BY <2>1, <2>3, <2>5, OneStep DEF OneAtATime
<1>2. CASE Read(t)
  <2> DEFINE h == [heap EXCEPT ![Unused] = GetSwap(row)]
  <2>1. /\ row \in Row /\ h \in [Objects -> Swap \cup {None}] /\ Unused \in Objects
        /\ GetSwap(row).status = row.data.status
    BY <1>2, ReadObject, ObjectsAreThere DEF Read, GetSwap, Row, Swap
  <2>2. Heap(h) /\ h[Unused] = GetSwap(row)
    BY <1>2, <2>1 DEF Read, Shape, TypeOK
  <2> HIDE DEF h
  <2>3. /\ UNCHANGED <<row, sends, due>> /\ op' = op /\ ref'[t] = Unused
        /\ pc[t] = "read" /\ pc'[t] = "found"
        /\ \A u \in Threads \ {t} : pc'[u] = pc[u]
        /\ cached' = IF op[t] = "settle" THEN Unused ELSE cached
    BY <1>2 DEF Read, At, Shape, TypeOK
  <2>4. heap'[Unused] = GetSwap(row)
    BY <2>1, <2>2, <2>3, HeapStep
  <2>5. cached = NoObject
    BY <2>3 DEF AtPlace
  <2>6. Orderly /\ op[t] # "settle" => Orderly'
    BY <2>3, <2>5 DEF Orderly
  <2>7. AtPlace(t)'
    BY <2>1, <2>3, <2>4, <2>5, <2>6 DEF AtPlace, Open
  <2> QED
    BY <2>3, <2>7, OneStep DEF OneAtATime
<1>3. CASE Route(t)
  <2>1. heap \in [Objects -> Swap \cup {None}] /\ Heap(heap) /\ UNCHANGED <<cached, row, sends, due>>
    BY <1>3 DEF Route, Shape, TypeOK
  <2>2. cached # NoObject => heap'[cached] = heap[cached]
    BY <2>1, HeapStep DEF Shape, TypeOK
  <2>3. pc[t] = "found" /\ op[t] = "confirm" /\ ref[t] # NoObject
    BY <1>3, ObjectsAreThere DEF Route, At, Shape, CallShape, Holding
  <2>4. Orderly /\ Orderly'
    BY <2>1, <2>2, <2>3 DEF Orderly, AtPlace
  <2>5. CASE Return(t)
    BY <2>1, <2>4, <2>5, ReturnShape, OneStep DEF OneAtATime, Shape
  <2>6. CASE /\ cached = NoObject /\ Goto(t, "late_stored")
             /\ Object(t).status \in LateWhenStored
    <3>1. /\ op' = op /\ ref' = ref /\ pc'[t] = "late_stored"
          /\ \A u \in Threads \ {t} : pc'[u] = pc[u]
      BY <2>6 DEF Goto, Shape, TypeOK
    <3>2. sends = 0
      BY <2>3, <2>4, <2>6, MaxSendsIsNat
         DEF AtPlace, Orderly, Done, Object, LateWhenStored, Shape, TypeOK
    <3>3. AtPlace(t)'
      BY <2>1, <2>3, <2>6, <3>1, <3>2 DEF AtPlace
    <3> QED
      BY <2>1, <3>1, <3>3, OneStep DEF OneAtATime
  <2>7. CASE /\ cached # NoObject
             /\ \/ Goto(t, "confirmations") /\ Object(t).status \in Unconfirmed
                \/ Goto(t, "late_cached")
    <3>1. /\ op' = op /\ ref' = ref /\ pc'[t] \in {"confirmations", "late_cached"}
          /\ pc'[t] = "confirmations" => Object(t).status \in Unconfirmed
          /\ \A u \in Threads \ {t} : pc'[u] = pc[u]
      BY <2>7 DEF Goto, Shape, TypeOK
    <3>2. sends = 0 /\ ref[t] = cached
      BY <2>3, <2>4, <2>7, MaxSendsIsNat DEF AtPlace, Orderly, Shape, TypeOK
    <3>3. AtPlace(t)'
      BY <2>1, <2>2, <2>3, <2>4, <2>7, <3>1, <3>2 DEF AtPlace, Object
    <3> QED
      BY <2>1, <3>1, <3>3, OneStep DEF OneAtATime
  <2> QED
    BY <1>3, <2>5, <2>6, <2>7 DEF Route
<1>4. CASE Late(t)
  <2>1. /\ pc[t] \in {"late_stored", "late_cached"} /\ pc'[t] = "update"
        /\ op'[t] = (IF pc[t] = "late_cached" THEN "drop" ELSE op[t])
        /\ UNCHANGED <<cached, row, sends, due>>
        /\ \A u \in Threads \ {t} : pc'[u] = pc[u]
    BY <1>4 DEF Late, At, Shape, TypeOK
  <2>2. AtPlace(t)'
    BY <2>1 DEF AtPlace
  <2> QED
    BY <2>1, <2>2, OneStep DEF OneAtATime
<1>5. CASE Confirmations(t)
  <2>1. /\ pc[t] = "confirmations" /\ op[t] = "confirm" /\ Orderly /\ ref[t] = cached
        /\ heap[cached].status \in Unconfirmed /\ cached # NoObject
    BY <1>5 DEF Confirmations, At, AtPlace, Shape, CallShape, Holding
  <2>2. Open
    BY <2>1, MaxSendsIsNat DEF Open, Orderly, Shape, TypeOK
  <2>3. UNCHANGED <<row, sends, due, cached>>
    BY <1>5 DEF Confirmations
  <2>4. CASE Return(t) /\ Heap(heap)
    <3>1. heap'[cached] = heap[cached]
      BY <2>1, <2>3, <2>4, HeapStep DEF Shape, TypeOK
    <3>2. Orderly'
      BY <2>1, <2>3, <3>1 DEF Orderly
    <3> QED
      BY <2>3, <2>4, <3>2, ReturnShape, OneStep DEF OneAtATime, Shape
  <2>5. CASE Goto(t, "update")
    <3>1. /\ op' = op /\ ref' = ref /\ pc'[t] = "update"
          /\ \A u \in Threads \ {t} : pc'[u] = pc[u]
      BY <2>5 DEF Goto, Shape, TypeOK
    <3>2. AtPlace(t)'
      BY <2>1, <2>2, <2>3, <3>1 DEF AtPlace, Open
    <3> QED
      BY <2>3, <3>1, <3>2, OneStep DEF OneAtATime
  <2>6. CASE /\ op' = [op EXCEPT ![t] = "settle"]
             /\ pc' = [pc EXCEPT ![t] = "lookup"]
             /\ UNCHANGED <<ref, out>>
             /\ Heap(SetStatus(t, "processing"))
    <3>1. "processing" \in SwapStatuses /\ pc[t] \in Holding
      BY <2>1 DEF SwapStatuses, Holding
    <3>2. heap'[cached] = [Object(t) EXCEPT !.status = "processing"] /\ Object(t) \in Swap
      BY <2>1, <2>3, <2>6, <3>1, HeldObject, HeapStep DEF Shape, TypeOK
    <3>3. heap'[cached'].status = "processing"
      BY <2>3, <3>2 DEF Swap
    <3>4. /\ op'[t] = "settle" /\ pc'[t] = "lookup" /\ \A u \in Threads \ {t} : pc'[u] = pc[u]
      BY <2>6 DEF Shape, TypeOK
    <3>5. AtPlace(t)'
      BY <2>2, <2>3, <3>3, <3>4 DEF AtPlace, Open
    <3> QED
      BY <2>3, <3>4, <3>5, OneStep DEF OneAtATime
  <2> QED
    BY <1>5, <2>4, <2>5, <2>6 DEF Confirmations
<1> QED
  BY <1>1, <1>2, <1>3, <1>4, <1>5

LEMMA OneSettle ==
    ASSUME Shape, OneAtATime, ~ touched, ~ overlapped, NEW t \in Threads, AtPlace(t),
           \A u \in Threads \ {t} : pc[u] = "idle",
           RepriceFails(t) \/ Pay(t) \/ Delay(t) \/ Fail(t) \/ Answered(t)
    PROVE  OneAtATime'
<1>1. UNCHANGED <<row, due>>
  BY DEF RepriceFails, Pay, Delay, DelayTo, Fail, Answered, Elsewhere
<1>2. pc[t] \in Holding /\ ref[t] # NoObject
  BY DEF RepriceFails, Pay, Delay, DelayTo, Fail, Answered, Settling, At, Holding, Shape, CallShape
<1>3. {"delayed", "failed", Settled(t)} \subseteq SwapStatuses
  BY DEF Settled, SwapStatuses
<1>4. CASE Settling(t) /\ ~ Answered(t)
  <2>1. /\ pc[t] = "found" /\ op[t] = "settle" /\ Open /\ ref[t] = cached
        /\ cached # NoObject
        /\ heap[cached].status \in {row.data.status, "failed", "processing"}
    BY <1>2, <1>4 DEF Settling, At, AtPlace
  <2>2. CASE RepriceFails(t)
    <3>1. heap'[cached] = heap[cached] /\ UNCHANGED <<cached, sends>> /\ Return(t)
      BY <2>1, <2>2, HeapStep DEF RepriceFails, Shape, TypeOK
    <3>2. heap[cached].status = row.data.status
      BY <2>1, <2>2 DEF RepriceFails, Object
    <3>3. Orderly'
      BY <1>1, <2>1, <3>1, <3>2 DEF Orderly, Open
    <3> QED
      BY <1>1, <3>1, <3>3, ReturnShape, OneStep DEF OneAtATime, Shape
  <2>3. CASE Pay(t)
    <3>1. /\ sends' = 1 /\ cached' = cached /\ op' = op /\ pc'[t] = "sent"
          /\ \A u \in Threads \ {t} : pc'[u] = pc[u]
      BY <2>1, <2>3 DEF Pay, Open, Goto, Shape, TypeOK
    <3>2. AtPlace(t)'
      BY <1>1, <2>1, <3>1 DEF AtPlace, Open
    <3> QED
      BY <1>1, <3>1, <3>2, OneStep DEF OneAtATime
  <2>4. CASE Delay(t)
    <3>1. /\ UNCHANGED <<sends, cached, op, ref>> /\ pc'[t] = "update"
          /\ \A u \in Threads \ {t} : pc'[u] = pc[u]
      BY <2>4 DEF Delay, DelayTo, Goto, Shape, TypeOK
    <3>2. AtPlace(t)'
      BY <1>1, <2>1, <3>1 DEF AtPlace, Open
    <3> QED
      BY <1>1, <3>1, <3>2, OneStep DEF OneAtATime
  <2>5. CASE Fail(t)
    <3>1. UNCHANGED <<cached, sends>> /\ Return(t) /\ Heap(SetStatus(t, "failed"))
      BY <2>5 DEF Fail
    <3>2. heap'[cached] = [Object(t) EXCEPT !.status = "failed"] /\ Object(t) \in Swap
      BY <1>2, <1>3, <2>1, <3>1, HeldObject, HeapStep DEF Shape, TypeOK
    <3>3. heap'[cached'].status = "failed"
      BY <3>1, <3>2 DEF Swap
    <3>4. Orderly'
      BY <1>1, <2>1, <3>1, <3>3 DEF Orderly, Open
    <3> QED
      BY <1>1, <3>1, <3>4, ReturnShape, OneStep DEF OneAtATime, Shape
  <2> QED
    BY <1>4, <2>2, <2>3, <2>4, <2>5
<1>5. CASE Answered(t)
  <2>1. pc[t] = "sent" /\ op[t] = "settle" /\ sends = 1 /\ Settler \notin due
    BY <1>5 DEF Answered, At, AtPlace
  <2>2. /\ UNCHANGED <<sends, op>> /\ cached' = NoObject /\ pc'[t] = "complete"
        /\ \A u \in Threads \ {t} : pc'[u] = pc[u]
    BY <1>5 DEF Answered, Goto, Shape, TypeOK
  <2>3. AtPlace(t)'
    BY <1>1, <2>1, <2>2 DEF AtPlace
  <2> QED
    BY <1>1, <2>2, <2>3, OneStep DEF OneAtATime
<1> QED
  BY <1>4, <1>5 DEF RepriceFails, Pay, Delay, DelayTo, Fail

LEMMA OneOther ==
    ASSUME Shape, OneAtATime, ~ touched, ~ overlapped, NEW t \in Threads, AtPlace(t),
           \A u \in Threads \ {t} : pc[u] = "idle",
           Cancel(t) \/ SetSwapStatus(t) \/ Update(t) \/ Complete(t) \/ Write(t)
    PROVE  OneAtATime'
<1>1. CASE Cancel(t)
  <2>1. /\ pc[t] = "found" /\ op[t] = "cancel" /\ Orderly /\ UNCHANGED <<row, sends, due>>
        /\ ref[t] # NoObject
    BY <1>1 DEF Cancel, At, AtPlace, Shape, CallShape, Holding
  <2>2. CASE Return(t) /\ UNCHANGED cached /\ Heap(heap)
    <3>1. cached # NoObject => heap'[cached] = heap[cached]
      BY <2>2, HeapStep DEF Shape, TypeOK
    <3>2. Orderly'
      BY <2>1, <2>2, <3>1 DEF Orderly
    <3> QED
      BY <2>1, <2>2, <3>2, ReturnShape, OneStep DEF OneAtATime, Shape
  <2>3. CASE /\ Object(t).status \notin {"completed", "failed"}
             /\ cached' = NoObject /\ Goto(t, "update")
    <3>1. sends = 0
      BY <2>1, <2>3, MaxSendsIsNat DEF AtPlace, Orderly, Done, Object, Shape, TypeOK
    <3>2. UNCHANGED op /\ pc'[t] = "update" /\ \A u \in Threads \ {t} : pc'[u] = pc[u]
      BY <2>3 DEF Goto, Shape, TypeOK
    <3>3. AtPlace(t)'
      BY <2>1, <2>3, <3>1, <3>2 DEF AtPlace
    <3> QED
      BY <2>1, <3>2, <3>3, OneStep DEF OneAtATime
  <2> QED
    BY <1>1, <2>2, <2>3 DEF Cancel
<1>2. ~ SetSwapStatus(t)
  BY NoTargets DEF SetSwapStatus, AtPlace, At
<1>3. CASE Update(t)
  <2>1. /\ pc[t] = "update" /\ pc'[t] = "write"
        /\ out'[t] = UpdateSwap(row, Object(t))
        /\ UNCHANGED <<row, heap, cached, sends, due, op, ref>>
        /\ \A u \in Threads \ {t} : pc'[u] = pc[u]
    BY <1>3 DEF Update, At, Shape, TypeOK
  <2>2. row \in Row /\ row # None /\ Object(t) \in Swap
    BY <2>1, HeldObject, ObjectsAreThere DEF Holding
  <2>3. out'[t].col = Object(t).status /\ out'[t].data.status = Object(t).status
    BY <2>1, <2>2 DEF UpdateSwap, Merge, Swap
  <2>4. AtPlace(t)'
    BY <2>1, <2>3 DEF AtPlace, Object
  <2> QED
    BY <2>1, <2>4, OneStep DEF OneAtATime
<1>4. CASE Complete(t)
  <2>1. /\ pc[t] = "complete" /\ pc'[t] = "write"
        /\ out'[t] = CompleteSwap(row)
        /\ UNCHANGED <<row, heap, cached, sends, due, op, ref>>
        /\ \A u \in Threads \ {t} : pc'[u] = pc[u]
    BY <1>4 DEF Complete, At, Shape, TypeOK
  <2>2. row \in Row /\ row # None
    BY <2>1, HeldObject, ObjectsAreThere DEF Holding
  <2>3. AdminColumn(row) \in AdminMarks
    BY <2>2 DEF AdminColumn, Row, Swap, AdminMarks
  <2>4. GetSwap(row) \in Swap
    BY <2>2, <2>3 DEF GetSwap, Row, Swap
  <2>5. out'[t] = [col |-> "completed", data |-> [GetSwap(row) EXCEPT !.status = "completed"]]
    BY <2>1, <2>2 DEF CompleteSwap
  <2>6. out'[t].col = "completed" /\ out'[t].data.status = "completed"
    BY <2>4, <2>5 DEF Swap
  <2>7. out'[t] # None
    <3>1. [GetSwap(row) EXCEPT !.status = "completed"] \in Swap
      BY <2>4 DEF Swap, SwapStatuses
    <3>2. out'[t] \in Row
      BY <2>5, <3>1 DEF Row, SwapStatuses
    <3> QED
      BY <3>2, ObjectsAreThere
  <2>8. AtPlace(t)'
    BY <2>1, <2>6, <2>7 DEF AtPlace, Done
  <2> QED
    BY <2>1, <2>8, OneStep DEF OneAtATime
<1>5. CASE Write(t)
  <2>1. /\ pc[t] = "write" /\ row' = out[t] /\ out[t] # None /\ UNCHANGED <<sends, due>>
        /\ Return(t) /\ Heap(heap)
        /\ cached' = IF op[t] = "drop" THEN NoObject ELSE cached
    BY <1>5 DEF Write, At, Shape, CallShape
  <2>2. cached' # NoObject => heap'[cached'] = heap[cached]
    BY <2>1, HeapStep DEF Shape, TypeOK
  <2>3. Orderly'
    BY <2>1, <2>2 DEF AtPlace, Orderly
  <2>4. Agrees(row)'
    BY <2>1 DEF AtPlace, Agrees
  <2> QED
    BY <2>1, <2>3, <2>4, ReturnShape, OneStep DEF Shape
<1> QED
  BY <1>1, <1>2, <1>3, <1>4, <1>5

LEMMA OneBegins ==
    ASSUME Shape, OneAtATime, ~ touched, ~ overlapped, ~ overlapped',
           NEW t \in Threads, NEW call, Begin(t, call),
           \/ call \in {"confirm", "cancel"} /\ (Settler \in due' <=> Settler \in due)
           \/ call = "settle" /\ Settler \in due /\ Settler \notin due'
    PROVE  OneAtATime'
<1>1. /\ Orderly /\ UNCHANGED <<row, heap, cached, sends>> /\ row # None
      /\ \A u \in Threads \ {t} : pc[u] = "idle" /\ pc'[u] = pc[u]
      /\ pc'[t] = "lookup" /\ op'[t] = call
  BY MeetsNone DEF Begin, Busy, OneAtATime, Shape, TypeOK
<1>2. AtPlace(t)'
  <2>1. CASE call # "settle"
    <3>1. Orderly'
      BY <1>1, <2>1 DEF Orderly
    <3> QED
      BY <1>1, <2>1, <3>1 DEF AtPlace
  <2>2. CASE call = "settle"
    <3>1. Open'
      BY <1>1, <2>2, MaxSendsIsNat DEF Orderly, Open, Shape, TypeOK
    <3> QED
      BY <1>1, <2>2, <3>1 DEF AtPlace, Orderly
  <2> QED
    BY <2>1, <2>2
<1> QED
  BY <1>1, <1>2, OneStep DEF OneAtATime

LEMMA OneOuter ==
    ASSUME Shape, Exclusive, OneAtATime, Outer, ~ touched', ~ overlapped, ~ overlapped'
    PROVE  OneAtATime'
<1>1. ~ touched
  BY OuterStep
<1>2. Settler \in Threads /\ Cleaner \in Threads /\ Callers \subseteq Threads
  BY DEF Threads
<1>3. CASE \E st \in {"pending", "circuit_breaker"} : CreateSwap(st)
  <2>1. PICK st \in {"pending", "circuit_breaker"}, n \in Amounts :
            LET o == [status |-> st, admin |-> "absent", net |-> n] IN
            /\ row' = AddSwap(o) /\ cached' = Unused /\ heap' = [heap EXCEPT ![Unused] = o]
    BY <1>3 DEF CreateSwap
  <2>2. Busy = {} /\ row = None /\ UNCHANGED <<sends, due, op, pc>>
    BY <1>3, CreateMeetsNone DEF CreateSwap, callVars
  <2>3. sends = 0 /\ Settler \notin due
    BY <1>1, <2>2, MaxSendsIsNat DEF OneAtATime, Orderly, Done, Shape, TypeOK
  <2>4. Unused \in Objects
    BY <1>2, <2>2, UnusedIsFree DEF Busy, Shape, CallShape
  <2>5. heap'[cached'].status = st /\ row'.data.status = st /\ row'.col = "pending"
    BY <2>1, <2>4 DEF AddSwap, Shape, TypeOK
  <2>6. Orderly' /\ Agrees(row)'
    BY <2>2, <2>3, <2>5 DEF Orderly, Agrees
  <2> QED
    BY <2>2, <2>3, <2>6 DEF OneAtATime, Busy
<1>4. CASE Deposit
  BY <1>4 DEF Deposit, callVars, OneAtATime, Busy, Orderly, AtPlace, Open
<1>5. ASSUME NEW t \in Callers, NEW call \in {"confirm", "cancel"}, UserCall(t, call)
      PROVE  OneAtATime'
  BY <1>1, <1>2, <1>5, OneBegins DEF UserCall
<1>6. ~ \E t \in Callers : \E call \in ByAdmin : AdminCall(t, call)
  BY DEF AdminCall
<1>7. CASE StartSweep
  <2>1. /\ Busy = {} /\ UNCHANGED <<row, heap, cached, sends, op, pc>>
        /\ due' = due \cup {Settler}
        /\ \/ cached # NoObject /\ heap[cached].status = "delayed"
           \/ row # None /\ row.col = "delayed"
    BY <1>7, MeetsNone DEF StartSweep, callVars
  <2>2. Orderly /\ Agrees(row)
    BY <1>1, <2>1 DEF OneAtATime
  <2>3. row # None
    BY <2>1 DEF Shape, CacheShape
  <2>4. Orderly'
    BY <2>1, <2>2, <2>3 DEF Orderly, Agrees, Done, Unconfirmed
  <2> QED
    BY <2>1, <2>2, <2>3, <2>4 DEF OneAtATime, Busy
<1>8. CASE LoopCall(Settler, "settle")
  BY <1>1, <1>2, <1>8, OneBegins DEF LoopCall
<1>9. CASE StartScan
  <2>1. /\ Busy = {} /\ UNCHANGED <<row, heap, cached, sends, op, pc>>
        /\ due' = due \cup {Cleaner}
    BY <1>9, MeetsNone DEF StartScan, callVars
  <2>2. Orderly'
    BY <1>1, <2>1, LoopsAreApart DEF OneAtATime, Orderly
  <2> QED
    BY <1>1, <2>1, <2>2, LoopsAreApart DEF OneAtATime, Busy
<1>10. CASE LoopCall(Cleaner, "confirm")
  BY <1>1, <1>2, <1>10, LoopsAreApart, OneBegins DEF LoopCall
<1>11. CASE ReadExpired
  <2>1. /\ Busy = {} /\ UNCHANGED <<row, heap, cached, sends, due, op>>
        /\ row # None /\ row.col \in Expirable
        /\ pc'[Cleaner] = "expire" /\ \A u \in Threads \ {Cleaner} : pc'[u] = pc[u]
        /\ out'[Cleaner] =
              [col |-> "timed_out", data |-> [row.data EXCEPT !.status = "timed_out"]]
    BY <1>2, <1>11, MeetsNone DEF ReadExpired, Shape, TypeOK
  <2>2. row \in Row
    BY <2>1 DEF Shape, TypeOK
  <2>3. sends = 0
    BY <1>1, <2>1, MaxSendsIsNat DEF OneAtATime, Orderly, Done, Expirable, Shape, TypeOK
  <2>4. out'[Cleaner].col = "timed_out" /\ out'[Cleaner].data.status = "timed_out"
    BY <2>1, <2>2 DEF Row, Swap
  <2>5. AtPlace(Cleaner)'
    BY <2>1, <2>3, <2>4 DEF AtPlace
  <2> QED
    BY <1>1, <1>2, <2>1, <2>5, OneStep DEF OneAtATime, Busy
<1>12. CASE Expire
  <2>1. /\ pc[Cleaner] = "expire" /\ row' = out[Cleaner] /\ out[Cleaner] # None
        /\ cached' = NoObject /\ UNCHANGED <<sends, due>> /\ Return(Cleaner)
    BY <1>2, <1>12 DEF Expire, At, Shape, CallShape
  <2>2. AtPlace(Cleaner)
    BY <1>1, <1>2, <2>1 DEF OneAtATime
  <2>3. Orderly' /\ Agrees(row)'
    BY <2>1, <2>2 DEF AtPlace, Orderly, Agrees
  <2>4. \A u \in Threads \ {Cleaner} : pc[u] = "idle"
    BY <1>2, <2>1 DEF Exclusive
  <2> QED
    BY <1>2, <2>1, <2>3, <2>4, ReturnShape, OneStep DEF Shape
<1> QED
  BY <1>3, <1>4, <1>5, <1>6, <1>7, <1>8, <1>9, <1>10, <1>11, <1>12 DEF Outer

LEMMA OneNext == Shape /\ Exclusive /\ OneAtATime /\ [Next]_vars => OneAtATime'
<1> SUFFICES ASSUME Shape, Exclusive, OneAtATime, [Next]_vars, ~ touched', ~ overlapped'
             PROVE  OneAtATime'
  BY DEF OneAtATime
<1>0. ~ overlapped
  BY OverlapLasts
<1>1. ASSUME NEW t \in Threads, CallStep(t)
      PROVE  OneAtATime'
  <2>1. touched' = touched
    BY <1>1 DEF CallStep, Lookup, Read, Route, Late, Confirmations, RepriceFails, Pay, Delay,
           DelayTo, Fail, Answered, Elsewhere, Cancel, SetSwapStatus, Update, Complete, Write
  <2>2. pc[t] # "idle"
    BY <1>1 DEF CallStep, Lookup, Read, Route, Late, Confirmations, RepriceFails, Pay, Delay,
           DelayTo, Fail, Answered, Settling, Cancel, SetSwapStatus, Update, Complete, Write, At
  <2>3. AtPlace(t) /\ \A u \in Threads \ {t} : pc[u] = "idle"
    BY <1>0, <2>1, <2>2 DEF OneAtATime, Exclusive
  <2> QED
    BY <1>0, <1>1, <2>1, <2>3, OneConfirm, OneSettle, OneOther DEF CallStep
<1>2. CASE Outer
  BY <1>0, <1>2, OneOuter
<1>3. CASE UNCHANGED vars
  BY <1>3 DEF vars, callVars, viewVars, OneAtATime, Busy, Agrees, Done, Orderly, Open, AtPlace
<1> QED
  BY <1>1, <1>2, <1>3 DEF Next, Outer

\* A swap that no administrator touched is paid a second time only after calls on it
\* have overlapped, whatever its users, the sweep and the cleanup do.
THEOREM PaysAgainByOverlap == Spec => []PaidAgainByOverlap
<1>1. Init => Exclusive
  BY DEF Init, Exclusive
<1>2. Init => OneAtATime
  BY DEF Init, OneAtATime, Busy, Agrees, Orderly
<1>3. Shape /\ OneAtATime => PaidAgainByOverlap
  <2> SUFFICES ASSUME Shape, OneAtATime, ~ touched, ~ overlapped
               PROVE  sends =< 1
    BY MaxSendsIsNat DEF PaidAgainByOverlap, Shape, TypeOK
  <2>1. CASE Busy = {}
    BY <2>1, MaxSendsIsNat DEF OneAtATime, Orderly, Shape, TypeOK
  <2>2. CASE Busy # {}
    <3>1. PICK t \in Threads : pc[t] # "idle"
      BY <2>2 DEF Busy
    <3>2. AtPlace(t) /\ pc[t] \in Places /\ sends \in Nat
      BY <3>1, MaxSendsIsNat DEF OneAtATime, Shape, TypeOK
    <3>3. Orderly => sends =< 1
      BY <3>2 DEF Orderly
    <3> QED
      BY <3>1, <3>2, <3>3 DEF AtPlace, Places, Open
  <2> QED
    BY <2>1, <2>2
<1>4. Shape /\ Exclusive /\ [Next]_vars => Exclusive'
  BY ExclusiveNext
<1>5. Shape /\ Exclusive /\ OneAtATime /\ [Next]_vars => OneAtATime'
  BY OneNext
<1> QED
  BY <1>1, <1>2, <1>3, <1>4, <1>5, ShapeAlways, PTL DEF Spec
=============================================================================
