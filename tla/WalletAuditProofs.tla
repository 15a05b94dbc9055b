-------------------------- MODULE WalletAuditProofs --------------------------
(***************************************************************************)
(* Theorems about WalletAudit for every value of its constants.            *)
(***************************************************************************)
EXTENDS WalletAudit, FiniteSetTheorems, TLAPS

(* What the steps of a request do to the thread that runs it. *)

LEMMA DoneType ==
    ASSUME TypeOK, NEW a \in Admins, Done(a)
    PROVE  call' \in [Admins -> {Idle} \cup Handling \cup Withdrawing]
BY DEF Done, TypeOK

LEMMA AtIsHandling ==
    ASSUME TypeOK, NEW a \in Admins, NEW place, At(a, place)
    PROVE  /\ call[a] \in Handling
           /\ call[a].op \in Handlings
           /\ call[a].dep \in Deposits
           /\ call[a].swap \in Swaps \cup {NoSwap}
           /\ call[a].tx \in 0..MaxSends
           /\ call[a].at = place
<1>1. call[a] \in {Idle} \cup Handling \cup Withdrawing
  BY DEF TypeOK
<1>2. call[a] # Idle /\ call[a] \notin Withdrawing
  BY DEF At, Handlings, Idle, Withdrawing
<1>3. call[a] \in Handling
  BY <1>1, <1>2
<1> QED
  BY <1>3 DEF Handling, At

LEMMA MoveType ==
    ASSUME TypeOK, NEW a \in Admins, call[a] \in Handling,
           NEW place \in {"check", "pay", "update", "record"}, NEW tx \in 0..MaxSends,
           call' = [call EXCEPT ![a] = [call[a] EXCEPT !.at = place, !.tx = tx]]
    PROVE  call' \in [Admins -> {Idle} \cup Handling \cup Withdrawing]
<1>1. [call[a] EXCEPT !.at = place, !.tx = tx] \in Handling
  BY DEF Handling
<1> QED
  BY <1>1 DEF TypeOK

LEMMA NoteType ==
    ASSUME TypeOK, NEW tx \in 0..MaxSends, Note(tx)
    PROVE  recent' \in Seq(0..MaxSends) /\ Len(recent') =< ActionLimit
<1>1. recent \in Seq(0..MaxSends) /\ Len(recent) =< ActionLimit /\ ActionLimit \in Nat \ {0}
  BY BoundsAreNat DEF TypeOK
<1>2. CASE Len(recent) < ActionLimit
  BY <1>1, <1>2 DEF Note
<1>3. CASE ~ (Len(recent) < ActionLimit)
  <2>1. recent # <<>>
    BY <1>1, <1>3
  <2>2. Tail(recent) \in Seq(0..MaxSends) /\ Len(Tail(recent)) = Len(recent) - 1
    BY <1>1, <2>1
  <2>3. recent' = Append(Tail(recent), tx)
    BY <1>3 DEF Note
  <2> QED
    BY <1>1, <2>2, <2>3
<1> QED
  BY <1>2, <1>3

LEMMA SentType ==
    ASSUME TypeOK, NEW x \in Send, Sent(x)
    PROVE  /\ sends' \in Seq(Send) /\ Len(sends') =< MaxSends
           /\ Len(sends') = Len(sends) + 1
           /\ own' \subseteq 1..Len(sends') /\ ackedSends \subseteq 1..Len(sends')
           /\ TxId \in 1..MaxSends /\ TxId \notin DOMAIN sends /\ TxId \in DOMAIN sends'
           /\ sends'[TxId] = x
           /\ \A i \in DOMAIN sends : i \in DOMAIN sends' /\ sends'[i] = sends[i]
           /\ \A i \in DOMAIN sends' : i # TxId => i \in DOMAIN sends
<1>1. sends \in Seq(Send) /\ Len(sends) < MaxSends /\ sends' = Append(sends, x)
  BY DEF TypeOK, Sent
<1>2. Len(sends) \in Nat /\ Len(sends') = Len(sends) + 1 /\ MaxSends \in Nat
  BY <1>1, BoundsAreNat
<1>3. own' \subseteq own \cup {Len(sends) + 1}
  BY DEF Sent
<1>4. own' \subseteq 1..Len(sends') /\ ackedSends \subseteq 1..Len(sends')
  BY <1>2, <1>3 DEF TypeOK
<1> QED
  BY <1>1, <1>2, <1>4 DEF TxId

-----------------------------------------------------------------------------
(* Types. *)

LEMMA TypeInit == Init => TypeOK
BY BoundsAreNat DEF Init, TypeOK, Idle

LEMMA TypeAcknowledge ==
    ASSUME TypeOK, NEW d \in Deposits, NEW how \in Actions, NEW by \in {"request", "hand"},
           Acknowledge(d, how, by)
    PROVE  /\ acks' \subseteq Deposits \X Actions \X {"request", "hand"}
           /\ recent' \in Seq(0..MaxSends) /\ Len(recent') =< ActionLimit
<1>1. 0 \in 0..MaxSends
  BY BoundsAreNat
<1>2. CASE HasTable
  BY <1>1, <1>2, NoteType DEF Acknowledge, TypeOK
<1>3. CASE ~ HasTable
  BY <1>3 DEF Acknowledge, TypeOK
<1> QED
  BY <1>2, <1>3

LEMMA TypePay ==
    ASSUME TypeOK, NEW a \in Admins, Pay(a)
    PROVE  TypeOK'
<1> DEFINE c == call[a]
           x == [why |-> c.op, for |-> c.dep]
<1>1. c \in Handling /\ c.op \in Handlings /\ c.dep \in Deposits
  BY AtIsHandling DEF Pay
<1>2. x \in Send /\ Sent(x)
  BY <1>1 DEF Send, Pay
<1>3. /\ sends' \in Seq(Send) /\ Len(sends') =< MaxSends /\ Len(sends') = Len(sends) + 1
      /\ TxId \in 1..MaxSends /\ TxId \in DOMAIN sends'
      /\ own' \subseteq 1..Len(sends') /\ ackedSends \subseteq 1..Len(sends')
  BY <1>2, SentType
<1>4. UNCHANGED <<arrived, withdrawal, acks, ackedSends, recent>>
  BY DEF Pay
<1>5. lost' \subseteq 0..MaxSends
  BY <1>3 DEF Pay, TypeOK
<1>6. call' \in [Admins -> {Idle} \cup Handling \cup Withdrawing]
  <2>1. CASE Done(a)
    BY <2>1, DoneType
  <2>2. CASE call' = [call EXCEPT ![a].at = IF c.swap = NoSwap THEN "record" ELSE "update",
                                  ![a].tx = TxId]
    <3> DEFINE place == IF c.swap = NoSwap THEN "record" ELSE "update"
    <3>1. place \in {"check", "pay", "update", "record"} /\ TxId \in 0..MaxSends
      BY <1>3
    <3>2. call' = [call EXCEPT ![a] = [call[a] EXCEPT !.at = place, !.tx = TxId]]
      BY <2>2 DEF TypeOK
    <3> HIDE DEF place
    <3> QED
      BY <1>1, <3>1, <3>2, MoveType
  <2> QED
    BY <2>1, <2>2 DEF Pay
<1> QED
  BY <1>3, <1>4, <1>5, <1>6 DEF TypeOK

LEMMA TypeNext == TypeOK /\ [Next]_vars => TypeOK'
<1> SUFFICES ASSUME TypeOK, [Next]_vars
             PROVE  TypeOK'
  OBVIOUS
<1>1. CASE UNCHANGED vars
  BY <1>1 DEF vars, TypeOK
<1>2. ASSUME NEW d \in Deposits, Arrive(d) PROVE TypeOK'
  BY <1>2 DEF Arrive, TypeOK
<1>3. ASSUME NEW d \in Deposits, NEW how \in Entered, AcknowledgeDeposit(d, how)
      PROVE  TypeOK'
  BY <1>3, EnteredKnown, TypeAcknowledge DEF AcknowledgeDeposit, TypeOK
<1>4. ASSUME NEW s \in Swaps, Payout(s) PROVE TypeOK'
  <2>1. [why |-> "payout", for |-> s] \in Send
    BY DEF Send
  <2>2. /\ sends' \in Seq(Send) /\ Len(sends') =< MaxSends /\ Len(sends') = Len(sends) + 1
        /\ own' \subseteq 1..Len(sends') /\ ackedSends \subseteq 1..Len(sends')
    BY <1>4, <2>1, SentType DEF Payout
  <2> QED
    BY <1>4, <2>2 DEF Payout, TypeOK
<1>5. ASSUME NEW a \in Admins, Request(a) PROVE TypeOK'
  <2>1. ASSUME NEW op \in Handlings, NEW d \in Deposits, NEW s \in Swaps \cup {NoSwap},
               Begin(a, op, d, s)
        PROVE  TypeOK'
    <3>1. [op |-> op, at |-> "check", dep |-> d, swap |-> s, tx |-> 0] \in Handling
      BY BoundsAreNat DEF Handling
    <3> QED
      BY <2>1, <3>1 DEF Begin, TypeOK
  <2>2. CASE Check(a)
    <3>1. call' \in [Admins -> {Idle} \cup Handling \cup Withdrawing]
      <4>1. CASE Done(a)
        BY <4>1, DoneType
      <4>2. CASE call' = [call EXCEPT ![a].at = "pay"]
        <5>1. call[a] \in Handling /\ call[a].tx \in 0..MaxSends
          BY <2>2, AtIsHandling DEF Check
        <5>2. [call[a] EXCEPT !.at = "pay"] \in Handling
          BY <5>1 DEF Handling
        <5> QED
          BY <4>2, <5>2 DEF TypeOK
      <4> QED
        BY <2>2, <4>1, <4>2 DEF Check
    <3> QED
      BY <2>2, <3>1 DEF Check, TypeOK
  <2>3. CASE PayFails(a)
    BY <2>3, DoneType DEF PayFails, TypeOK
  <2>4. CASE Pay(a)
    BY <2>4, TypePay
  <2>5. CASE UpdateSwap(a)
    <3>1. call[a] \in Handling /\ call[a].tx \in 0..MaxSends
      BY <2>5, AtIsHandling DEF UpdateSwap
    <3>2. [call[a] EXCEPT !.at = "record"] \in Handling
      BY <3>1 DEF Handling
    <3>3. call' \in [Admins -> {Idle} \cup Handling \cup Withdrawing]
      BY <2>5, <3>2 DEF UpdateSwap, TypeOK
    <3>4. withdrawal' \in [Swaps -> 0..MaxSends]
      BY <2>5, <3>1 DEF UpdateSwap, TypeOK
    <3> QED
      BY <2>5, <3>3, <3>4 DEF UpdateSwap, TypeOK
  <2>6. CASE Record(a)
    <3>1. call[a].op \in Handlings /\ call[a].dep \in Deposits
      BY <2>6, AtIsHandling DEF Record, RecordAs
    <3>2. Acknowledge(call[a].dep, call[a].op, "request")
      BY <2>6 DEF Record, RecordAs
    <3>3. /\ acks' \subseteq Deposits \X Actions \X {"request", "hand"}
          /\ recent' \in Seq(0..MaxSends) /\ Len(recent') =< ActionLimit
      BY <3>1, <3>2, TypeAcknowledge DEF Actions
    <3> QED
      BY <2>6, <3>3, DoneType DEF Record, RecordAs, TypeOK
  <2>7. CASE RecordFails(a)
    <3>1. call[a].tx \in 0..MaxSends
      BY <2>7, AtIsHandling DEF RecordFails
    <3> QED
      BY <2>7, <3>1, DoneType DEF RecordFails, TypeOK
  <2>8. CASE Withdraw(a)
    <3>1. CASE Sent([why |-> "withdrawn"])
               /\ call' = [call EXCEPT ![a] = [op |-> "withdrawn", tx |-> TxId]]
      <4>1. [why |-> "withdrawn"] \in Send
        BY DEF Send
      <4>2. /\ sends' \in Seq(Send) /\ Len(sends') =< MaxSends /\ TxId \in 0..MaxSends
            /\ own' \subseteq 1..Len(sends') /\ ackedSends \subseteq 1..Len(sends')
        BY <3>1, <4>1, SentType
      <4>3. [op |-> "withdrawn", tx |-> TxId] \in Withdrawing
        BY <4>2 DEF Withdrawing
      <4> QED
        BY <2>8, <3>1, <4>2, <4>3 DEF Withdraw, TypeOK
    <3>2. CASE call' = [call EXCEPT ![a] = [op |-> "withdrawn", tx |-> 0]]
               /\ UNCHANGED <<sends, own>>
      <4>1. [op |-> "withdrawn", tx |-> 0] \in Withdrawing
        BY BoundsAreNat DEF Withdrawing
      <4> QED
        BY <2>8, <3>2, <4>1 DEF Withdraw, TypeOK
    <3> QED
      BY <2>8, <3>1, <3>2 DEF Withdraw
  <2>9. CASE LogWithdrawal(a)
    <3>1. call[a] \in {Idle} \cup Handling \cup Withdrawing /\ call[a].op = "withdrawn"
      BY <2>9 DEF LogWithdrawal, LogAs, TypeOK
    <3>2. call[a].tx \in 0..MaxSends
      BY <3>1 DEF Idle, Handling, Withdrawing, Handlings
    <3>3. recent' \in Seq(0..MaxSends) /\ Len(recent') =< ActionLimit
      BY <2>9, <3>2, NoteType DEF LogWithdrawal, LogAs, TypeOK
    <3> QED
      BY <2>9, <3>3, DoneType DEF LogWithdrawal, LogAs, TypeOK
  <2> QED
    BY <1>5, <2>1, <2>2, <2>3, <2>4, <2>5, <2>6, <2>7, <2>8, <2>9 DEF Request
<1>6. CASE Crash
  <2>1. ASSUME NEW a \in Paying PROVE call[a].tx \in 0..MaxSends
    BY <2>1, AtIsHandling DEF Paying
  <2> QED
    BY <1>6, <2>1 DEF Crash, TypeOK
<1>7. ASSUME NEW i \in 1..MaxSends, AcknowledgeSend(i) PROVE TypeOK'
  <2>1. ackedSends' \subseteq 1..Len(sends)
    BY <1>7 DEF AcknowledgeSend, TypeOK
  <2>2. recent' \in Seq(0..MaxSends) /\ Len(recent') =< ActionLimit
    BY <1>7, NoteType DEF AcknowledgeSend
  <2> QED
    BY <1>7, <2>1, <2>2 DEF AcknowledgeSend, TypeOK
<1>8. ASSUME NEW gone \in SUBSET own, Rotate(gone) PROVE TypeOK'
  <2>1. 0 \in 0..MaxSends
    BY BoundsAreNat
  <2>2. recent' \in Seq(0..MaxSends) /\ Len(recent') =< ActionLimit
    BY <1>8, <2>1, NoteType DEF Rotate, TypeOK
  <2> QED
    BY <1>8, <2>2 DEF Rotate, TypeOK
<1> QED
  BY <1>1, <1>2, <1>3, <1>4, <1>5, <1>6, <1>7, <1>8 DEF Next

\* Every reachable state is well typed, whatever the requests, the faults and the
\* bounds: no txid leaves the range of the transactions that were sent.
THEOREM TypeCorrect == Spec => []TypeOK
<1> QED
  BY TypeInit, TypeNext, PTL DEF Spec

-----------------------------------------------------------------------------
(* The two records of a settlement, and the payment they are about. *)

\* A request that has paid remembers the payment it made; only a settlement for a
\* swap writes to the swap's row.
CallMatches(a) ==
    /\ (At(a, "update") \/ At(a, "record")) =>
          /\ call[a].tx \in DOMAIN sends
          /\ sends[call[a].tx].why = call[a].op
          /\ sends[call[a].tx].for = call[a].dep
    /\ (At(a, "pay") \/ At(a, "check") \/ At(a, "update")) =>
          (call[a].op = "refunded" => call[a].swap = NoSwap)
    /\ At(a, "update") => call[a].swap \in Swaps /\ call[a].op = "settled"

CallsMatch == \A a \in Admins : CallMatches(a)

RecordsInv == TypeOK /\ CallsMatch /\ RecordedWasPaid /\ WithdrawalIsRecorded

LEMMA RecordsInit == Init => RecordsInv
<1> SUFFICES ASSUME Init PROVE RecordsInv
  OBVIOUS
<1>1. \A a \in Admins, place \in {"check", "pay", "update", "record"} : ~ At(a, place)
  BY DEF Init, At, Idle, Handlings
<1> QED
  BY <1>1, TypeInit DEF Init, RecordsInv, CallsMatch, CallMatches, RecordedWasPaid,
     WithdrawalIsRecorded

\* Where a request stands decides where it does not.
LEMMA OnePlace ==
    ASSUME NEW a, NEW p, NEW q, At(a, p), At(a, q)
    PROVE  p = q
BY DEF At

\* The steps that leave payments and records alone keep RecordsInv if each
\* request that has paid is where it was.
LEMMA RecordsFrame ==
    ASSUME RecordsInv, TypeOK', UNCHANGED <<sends, withdrawal, acks, lost>>, CallsMatch',
           \A a \in Admins : At(a, "record") => call'[a] = call[a]
    PROVE  RecordsInv'
<1>1. RecordedWasPaid'
  BY DEF RecordsInv, RecordedWasPaid, Handled
<1>2. WithdrawalIsRecorded'
  BY DEF RecordsInv, WithdrawalIsRecorded, Recorded, At
<1> QED
  BY <1>1, <1>2 DEF RecordsInv

\* A new payment leaves the records of the old ones alone.
LEMMA RecordsAfterSend ==
    ASSUME RecordsInv, TypeOK', NEW x \in Send, Sent(x),
           UNCHANGED <<withdrawal, acks>>, lost \subseteq lost', CallsMatch',
           \A a \in Admins : At(a, "record") => call'[a] = call[a]
    PROVE  RecordsInv'
<1>1. \A i \in DOMAIN sends : i \in DOMAIN sends' /\ sends'[i] = sends[i]
  BY SentType DEF RecordsInv
<1>2. RecordedWasPaid'
  <2> SUFFICES ASSUME NEW d \in Deposits, NEW how \in Handlings,
                      <<d, how, "request">> \in acks
               PROVE  \E i \in Handled(d)' : sends'[i].why = how
    BY DEF RecordedWasPaid
  <2>1. PICK i \in Handled(d) : sends[i].why = how
    BY DEF RecordsInv, RecordedWasPaid
  <2> QED
    BY <1>1, <2>1 DEF Handled
<1>3. WithdrawalIsRecorded'
  <2> SUFFICES ASSUME NEW s \in Swaps, withdrawal[s] # 0
               PROVE  /\ withdrawal[s] \in DOMAIN sends'
                      /\ sends'[withdrawal[s]].why = "settled"
                      /\ HasTable => Recorded(withdrawal[s])'
    BY DEF WithdrawalIsRecorded
  <2>1. /\ withdrawal[s] \in DOMAIN sends
        /\ sends[withdrawal[s]].why = "settled"
        /\ HasTable => Recorded(withdrawal[s])
    BY DEF RecordsInv, WithdrawalIsRecorded
  <2>2. HasTable => Recorded(withdrawal[s])'
    BY <1>1, <2>1 DEF Recorded, At
  <2> QED
    BY <1>1, <2>1, <2>2
<1> QED
  BY <1>2, <1>3 DEF RecordsInv

LEMMA RecordsPay ==
    ASSUME RecordsInv, TypeOK', NEW a \in Admins, Pay(a)
    PROVE  RecordsInv'
<1> DEFINE x == [why |-> call[a].op, for |-> call[a].dep]
<1>1. TypeOK /\ At(a, "pay") /\ Sent(x)
  BY DEF RecordsInv, Pay
<1>2. /\ call[a] \in Handling /\ call[a].op \in Handlings /\ call[a].dep \in Deposits
      /\ call[a].swap \in Swaps \cup {NoSwap}
  BY <1>1, AtIsHandling
<1>3. x \in Send
  BY <1>2 DEF Send
<1>4. /\ \A i \in DOMAIN sends : i \in DOMAIN sends' /\ sends'[i] = sends[i]
      /\ TxId \in DOMAIN sends' /\ sends'[TxId] = x
  BY <1>1, <1>3, SentType
<1>5. \A b \in Admins : b # a => call'[b] = call[b]
  BY DEF Pay, Done, RecordsInv, TypeOK
<1>6. CallMatches(a)'
  <2>1. CASE Done(a)
    BY <2>1, <1>1 DEF Done, TypeOK, CallMatches, At, Idle, Handlings
  <2>2. CASE call' = [call EXCEPT ![a].at = IF call[a].swap = NoSwap THEN "record" ELSE "update",
                                  ![a].tx = TxId]
    <3> DEFINE place == IF call[a].swap = NoSwap THEN "record" ELSE "update"
    <3>1. call'[a] = [call[a] EXCEPT !.at = place, !.tx = TxId]
      BY <2>2, <1>1 DEF TypeOK
    <3>2. /\ call'[a].op = call[a].op /\ call'[a].dep = call[a].dep
          /\ call'[a].swap = call[a].swap /\ call'[a].tx = TxId /\ call'[a].at = place
      BY <3>1, <1>2 DEF Handling
    <3>3. call[a].op = "refunded" => call[a].swap = NoSwap
      BY <1>1 DEF RecordsInv, CallsMatch, CallMatches
    <3> QED
      BY <3>2, <3>3, <1>2, <1>4, NoSwapIsNone DEF CallMatches, At, Handlings
  <2> QED
    BY <2>1, <2>2 DEF Pay
<1>7. CallsMatch'
  BY <1>4, <1>5, <1>6 DEF RecordsInv, CallsMatch, CallMatches, At
<1>8. \A b \in Admins : At(b, "record") => call'[b] = call[b]
  BY <1>1, <1>5 DEF At
<1> HIDE DEF x
<1> QED
  BY <1>1, <1>3, <1>7, <1>8, RecordsAfterSend DEF Pay

LEMMA RecordsUpdateSwap ==
    ASSUME RecordsInv, TypeOK', NEW a \in Admins, UpdateSwap(a)
    PROVE  RecordsInv'
<1>1. TypeOK /\ At(a, "update")
  BY DEF RecordsInv, UpdateSwap
<1>2. call[a] \in Handling
  BY <1>1, AtIsHandling
<1>3. /\ call[a].tx \in DOMAIN sends /\ sends[call[a].tx].why = "settled"
      /\ sends[call[a].tx].for = call[a].dep /\ call[a].op = "settled"
  BY <1>1 DEF RecordsInv, CallsMatch, CallMatches
<1>4. \A b \in Admins : b # a => call'[b] = call[b]
  BY <1>1 DEF UpdateSwap, TypeOK
<1>5. /\ call'[a].op = call[a].op /\ call'[a].dep = call[a].dep
      /\ call'[a].tx = call[a].tx /\ call'[a].at = "record"
  BY <1>1, <1>2 DEF UpdateSwap, TypeOK, Handling
<1>6. UNCHANGED <<sends, acks, lost>>
  BY DEF UpdateSwap
<1>7. CallsMatch'
  BY <1>3, <1>4, <1>5, <1>6 DEF RecordsInv, CallsMatch, CallMatches, At
<1>8. RecordedWasPaid'
  BY <1>6 DEF RecordsInv, RecordedWasPaid, Handled
<1>9. WithdrawalIsRecorded'
  <2> SUFFICES ASSUME NEW s \in Swaps, withdrawal'[s] # 0
               PROVE  /\ withdrawal'[s] \in DOMAIN sends
                      /\ sends[withdrawal'[s]].why = "settled"
                      /\ HasTable => Recorded(withdrawal[s])'
    BY <1>6 DEF WithdrawalIsRecorded, Recorded
  <2>1. CASE withdrawal'[s] = call[a].tx
    <3>1. At(a, "record")' /\ call'[a].tx = call[a].tx
      BY <1>3, <1>5 DEF At, Handlings
    <3> QED
      BY <1>3, <2>1, <3>1 DEF Recorded
  <2>2. CASE withdrawal'[s] = withdrawal[s]
    <3>1. \A b \in Admins : At(b, "record") => call'[b] = call[b]
      BY <1>1, <1>4 DEF At
    <3> QED
      BY <1>6, <2>2, <3>1 DEF RecordsInv, WithdrawalIsRecorded, Recorded, At
  <2> QED
    BY <1>1, <2>1, <2>2 DEF UpdateSwap, TypeOK
<1> QED
  BY <1>7, <1>8, <1>9 DEF RecordsInv

LEMMA RecordsRecord ==
    ASSUME RecordsInv, TypeOK', NEW a \in Admins, Record(a)
    PROVE  RecordsInv'
<1>1. /\ TypeOK /\ At(a, "record") /\ Done(a)
      /\ Acknowledge(call[a].dep, call[a].op, "request")
  BY DEF RecordsInv, Record, RecordAs
<1>2. /\ call[a].tx \in DOMAIN sends /\ sends[call[a].tx].why = call[a].op
      /\ sends[call[a].tx].for = call[a].dep
      /\ call[a].op \in Handlings /\ call[a].dep \in Deposits
  BY <1>1, AtIsHandling DEF RecordsInv, CallsMatch, CallMatches
<1>3. UNCHANGED <<sends, withdrawal, lost>>
  BY DEF Record, RecordAs
<1>4. call'[a] = Idle /\ \A b \in Admins : b # a => call'[b] = call[b]
  BY <1>1 DEF Done, TypeOK
<1>5. CallsMatch'
  BY <1>3, <1>4 DEF RecordsInv, CallsMatch, CallMatches, At, Idle, Handlings
<1>6. /\ acks' \subseteq acks \cup {<<call[a].dep, call[a].op, "request">>}
      /\ acks \subseteq acks'
      /\ HasTable => <<call[a].dep, call[a].op, "request">> \in acks'
  BY <1>1 DEF Acknowledge
<1>7. RecordedWasPaid'
  <2> SUFFICES ASSUME NEW d \in Deposits, NEW how \in Handlings,
                      <<d, how, "request">> \in acks'
               PROVE  \E i \in Handled(d) : sends[i].why = how
    BY <1>3 DEF RecordedWasPaid, Handled
  <2>1. CASE <<d, how, "request">> \in acks
    BY <2>1 DEF RecordsInv, RecordedWasPaid
  <2>2. CASE d = call[a].dep /\ how = call[a].op
    BY <1>2, <2>2 DEF Handled
  <2> QED
    BY <1>6, <2>1, <2>2
<1>8. WithdrawalIsRecorded'
  <2> SUFFICES ASSUME NEW s \in Swaps, withdrawal[s] # 0
               PROVE  /\ withdrawal[s] \in DOMAIN sends
                      /\ sends[withdrawal[s]].why = "settled"
                      /\ HasTable => Recorded(withdrawal[s])'
    BY <1>3 DEF WithdrawalIsRecorded, Recorded
  <2>1. /\ withdrawal[s] \in DOMAIN sends
        /\ sends[withdrawal[s]].why = "settled"
        /\ HasTable => Recorded(withdrawal[s])
    BY DEF RecordsInv, WithdrawalIsRecorded
  <2>2. CASE call[a].tx = withdrawal[s]
    BY <1>2, <1>3, <1>6, <2>1, <2>2 DEF Recorded
  <2>3. CASE call[a].tx # withdrawal[s]
    BY <1>3, <1>4, <1>6, <2>1, <2>3 DEF Recorded, At
  <2> QED
    BY <2>1, <2>2, <2>3
<1> QED
  BY <1>5, <1>7, <1>8 DEF RecordsInv

\* A request that ends before it recorded its payment leaves the payment in lost.
LEMMA RecordsCutOff ==
    ASSUME RecordsInv, TypeOK', UNCHANGED <<sends, withdrawal, acks>>, lost \subseteq lost',
           \A a \in Admins : \/ call'[a] = call[a]
                            \/ /\ call'[a] = Idle
                               /\ At(a, "record") => call[a].tx \in lost'
    PROVE  RecordsInv'
<1>1. CallsMatch'
  BY DEF RecordsInv, CallsMatch, CallMatches, At, Idle, Handlings
<1>2. RecordedWasPaid'
  BY DEF RecordsInv, RecordedWasPaid, Handled
<1>3. WithdrawalIsRecorded'
  BY DEF RecordsInv, WithdrawalIsRecorded, Recorded, At
<1> QED
  BY <1>1, <1>2, <1>3 DEF RecordsInv

LEMMA RecordsNext == RecordsInv /\ [Next]_vars => RecordsInv'
<1> SUFFICES ASSUME RecordsInv, [Next]_vars PROVE RecordsInv'
  OBVIOUS
<1>t. TypeOK /\ TypeOK'
  BY TypeNext DEF RecordsInv
<1>1. CASE UNCHANGED vars
  BY <1>1, <1>t, RecordsCutOff DEF vars
<1>2. ASSUME NEW d \in Deposits, Arrive(d) PROVE RecordsInv'
  BY <1>2, <1>t, RecordsCutOff DEF Arrive
<1>3. ASSUME NEW d \in Deposits, NEW how \in Entered, AcknowledgeDeposit(d, how)
      PROVE  RecordsInv'
  <2>1. /\ UNCHANGED <<sends, withdrawal, call, lost>>
        /\ acks' \subseteq acks \cup {<<d, how, "hand">>} /\ acks \subseteq acks'
    BY <1>3 DEF AcknowledgeDeposit, Acknowledge
  <2>2. RecordedWasPaid'
    <3> SUFFICES ASSUME NEW e \in Deposits, NEW act \in Handlings,
                        <<e, act, "request">> \in acks'
                 PROVE  \E i \in Handled(e) : sends[i].why = act
      BY <2>1 DEF RecordedWasPaid, Handled
    <3>1. <<e, act, "request">> # <<d, how, "hand">>
      OBVIOUS
    <3> QED
      BY <2>1, <3>1 DEF RecordsInv, RecordedWasPaid
  <2>3. WithdrawalIsRecorded' /\ CallsMatch'
    BY <2>1 DEF RecordsInv, WithdrawalIsRecorded, Recorded, CallsMatch, CallMatches, At
  <2> QED
    BY <1>t, <2>2, <2>3 DEF RecordsInv
<1>4. ASSUME NEW s \in Swaps, Payout(s) PROVE RecordsInv'
  <2>1. [why |-> "payout", for |-> s] \in Send
    BY DEF Send
  <2>2. \A i \in DOMAIN sends : i \in DOMAIN sends' /\ sends'[i] = sends[i]
    BY <1>4, <1>t, <2>1, SentType DEF Payout
  <2>3. CallsMatch'
    BY <1>4, <2>2 DEF Payout, RecordsInv, CallsMatch, CallMatches, At
  <2> QED
    BY <1>4, <1>t, <2>1, <2>3, RecordsAfterSend DEF Payout
<1>5. ASSUME NEW a \in Admins, Request(a) PROVE RecordsInv'
  <2>1. ASSUME NEW op \in Handlings, NEW d \in Deposits, NEW s \in Swaps \cup {NoSwap},
               Begin(a, op, d, s)
        PROVE  RecordsInv'
    <3>1. /\ call[a] = Idle /\ UNCHANGED <<sends, withdrawal, acks, lost>>
          /\ \A b \in Admins : b # a => call'[b] = call[b]
          /\ call'[a] = [op |-> op, at |-> "check", dep |-> d, swap |-> s, tx |-> 0]
          /\ op = "refunded" => s = NoSwap
      BY <2>1, <1>t DEF Begin, TypeOK
    <3>2. CallMatches(a)'
      BY <3>1 DEF CallMatches, At
    <3>3. CallsMatch'
      BY <3>1, <3>2 DEF RecordsInv, CallsMatch, CallMatches, At
    <3>4. \A b \in Admins : At(b, "record") => call'[b] = call[b]
      BY <3>1 DEF At, Idle, Handlings
    <3> QED
      BY <1>t, <3>1, <3>3, <3>4, RecordsFrame
  <2>2. CASE Check(a)
    <3>1. At(a, "check") /\ UNCHANGED <<sends, withdrawal, acks, lost>>
      BY <2>2 DEF Check
    <3>2. CASE Done(a)
      BY <1>t, <3>1, <3>2, RecordsCutOff DEF Done, TypeOK, At
    <3>3. CASE call' = [call EXCEPT ![a].at = "pay"]
      <4>1. call[a] \in Handling
        BY <1>t, <3>1, AtIsHandling
      <4>2. /\ \A b \in Admins : b # a => call'[b] = call[b]
            /\ call'[a].op = call[a].op /\ call'[a].swap = call[a].swap
            /\ call'[a].at = "pay"
        BY <1>t, <3>3, <4>1 DEF TypeOK, Handling
      <4>3. CallMatches(a)'
        BY <3>1, <4>2 DEF RecordsInv, CallsMatch, CallMatches, At
      <4>4. CallsMatch'
        BY <3>1, <4>2, <4>3 DEF RecordsInv, CallsMatch, CallMatches, At
      <4>5. \A b \in Admins : At(b, "record") => call'[b] = call[b]
        BY <3>1, <4>2 DEF At
      <4> QED
        BY <1>t, <3>1, <4>4, <4>5, RecordsFrame
    <3> QED
      BY <2>2, <3>2, <3>3 DEF Check
  <2>3. CASE PayFails(a)
    BY <1>t, <2>3, RecordsCutOff DEF PayFails, Done, TypeOK, At
  <2>4. CASE Pay(a)
    BY <1>t, <2>4, RecordsPay
  <2>5. CASE UpdateSwap(a)
    BY <1>t, <2>5, RecordsUpdateSwap
  <2>6. CASE Record(a)
    BY <1>t, <2>6, RecordsRecord
  <2>7. CASE RecordFails(a)
    BY <1>t, <2>7, RecordsCutOff DEF RecordFails, Done, TypeOK
  <2>8. CASE Withdraw(a)
    <3>1. /\ call[a] = Idle /\ UNCHANGED <<withdrawal, acks, lost>>
          /\ \A b \in Admins : b # a => call'[b] = call[b]
          /\ call'[a].op = "withdrawn"
      BY <2>8, <1>t DEF Withdraw, TypeOK
    <3>2. CallMatches(a)'
      BY <3>1 DEF CallMatches, At, Handlings
    <3>3. \A b \in Admins : At(b, "record") => call'[b] = call[b]
      BY <3>1 DEF At, Idle, Handlings
    <3>4. CASE Sent([why |-> "withdrawn"])
      <4>1. [why |-> "withdrawn"] \in Send
        BY DEF Send
      <4>2. \A i \in DOMAIN sends : i \in DOMAIN sends' /\ sends'[i] = sends[i]
        BY <1>t, <3>4, <4>1, SentType
      <4>3. CallsMatch'
        BY <3>1, <3>2, <4>2 DEF RecordsInv, CallsMatch, CallMatches, At
      <4> QED
        BY <1>t, <3>1, <3>3, <3>4, <4>1, <4>3, RecordsAfterSend
    <3>5. CASE UNCHANGED sends
      <4>1. CallsMatch'
        BY <3>1, <3>2, <3>5 DEF RecordsInv, CallsMatch, CallMatches, At
      <4> QED
        BY <1>t, <3>1, <3>3, <3>5, <4>1, RecordsFrame
    <3> QED
      BY <2>8, <3>4, <3>5 DEF Withdraw
  <2>9. CASE LogWithdrawal(a)
    BY <1>t, <2>9, RecordsCutOff DEF LogWithdrawal, LogAs, Done, TypeOK, At, Handlings
  <2> QED
    BY <1>5, <2>1, <2>2, <2>3, <2>4, <2>5, <2>6, <2>7, <2>8, <2>9 DEF Request
<1>6. CASE Crash
  <2>1. \A a \in Admins : /\ call'[a] = Idle
                          /\ At(a, "record") => call[a].tx \in lost'
    BY <1>6 DEF Crash, Paying
  <2> QED
    BY <1>6, <1>t, <2>1, RecordsCutOff DEF Crash
<1>7. ASSUME NEW i \in 1..MaxSends, AcknowledgeSend(i) PROVE RecordsInv'
  BY <1>7, <1>t, RecordsCutOff DEF AcknowledgeSend
<1>8. ASSUME NEW gone \in SUBSET own, Rotate(gone) PROVE RecordsInv'
  BY <1>8, <1>t, RecordsCutOff DEF Rotate
<1> QED
  BY <1>1, <1>2, <1>3, <1>4, <1>5, <1>6, <1>7, <1>8 DEF Next

LEMMA RecordsAlways == Spec => []RecordsInv
<1> QED
  BY RecordsInit, RecordsNext, PTL DEF Spec

\* In every order of calls, faults and entries by hand, a deposit that a request
\* recorded as settled or refunded was paid out that way.
THEOREM RecordsArePaid == Spec => []RecordedWasPaid
<1>1. RecordsInv => RecordedWasPaid
  BY DEF RecordsInv
<1> QED
  BY <1>1, RecordsAlways, PTL

\* In every order of calls and faults, the txid a row shows is a settlement, and
\* one that acknowledged_transactions knows of or that was cut off.
THEOREM WithdrawalsAreRecorded == Spec => []WithdrawalIsRecorded
<1>1. RecordsInv => WithdrawalIsRecorded
  BY DEF RecordsInv
<1> QED
  BY <1>1, RecordsAlways, PTL

-----------------------------------------------------------------------------
(* What the report clears. *)

\* A transaction that stands among the wallet actions was acknowledged or is a
\* withdrawal; one that a request is about to log there is a withdrawal.
IsWithdrawal(tx) == tx # 0 => tx \in DOMAIN sends /\ sends[tx].why = "withdrawn"

LogInv ==
    /\ \A i \in DOMAIN recent : recent[i] \in ackedSends \/ IsWithdrawal(recent[i])
    /\ \A a \in Admins : call[a].op = "withdrawn" => IsWithdrawal(call[a].tx)

LEMMA NoteEntries ==
    ASSUME TypeOK, NEW tx \in 0..MaxSends, Note(tx)
    PROVE  \A i \in DOMAIN recent' :
               recent'[i] = tx \/ \E j \in DOMAIN recent : recent'[i] = recent[j]
<1>1. recent \in Seq(0..MaxSends) /\ Len(recent) =< ActionLimit /\ ActionLimit \in Nat \ {0}
  BY BoundsAreNat DEF TypeOK
<1>2. CASE Len(recent) < ActionLimit
  BY <1>1, <1>2 DEF Note
<1>3. CASE ~ (Len(recent) < ActionLimit)
  <2>1. recent # <<>>
    BY <1>1, <1>3
  <2>2. Tail(recent) \in Seq(0..MaxSends)
    BY <1>1, <2>1
  <2>3. \A i \in 1..Len(Tail(recent)) : i + 1 \in DOMAIN recent /\ Tail(recent)[i] = recent[i + 1]
    BY <1>1, <2>1
  <2>4. recent' = Append(Tail(recent), tx)
    BY <1>3 DEF Note
  <2> QED
    BY <2>2, <2>3, <2>4
<1> QED
  BY <1>2, <1>3

\* A step that keeps the payments and what was acknowledged, enters in the log only
\* that or what a withdrawal brings, and gives a withdrawal only its own payment.
LEMMA LogFrame ==
    ASSUME LogInv, ackedSends \subseteq ackedSends',
           \A i \in DOMAIN sends : i \in DOMAIN sends' /\ sends'[i] = sends[i],
           \A i \in DOMAIN recent' :
               \/ recent'[i] = 0
               \/ recent'[i] \in ackedSends'
               \/ \E j \in DOMAIN recent : recent'[i] = recent[j]
               \/ \E a \in Admins : call[a].op = "withdrawn" /\ recent'[i] = call[a].tx,
           \A a \in Admins : call'[a].op = "withdrawn" =>
               \/ call'[a] = call[a]
               \/ call'[a].tx = 0
               \/ call'[a].tx \in DOMAIN sends' /\ sends'[call'[a].tx].why = "withdrawn"
    PROVE  LogInv'
BY DEF LogInv, IsWithdrawal

LEMMA LogAcknowledge ==
    ASSUME TypeOK, NEW d, NEW how, NEW by, Acknowledge(d, how, by)
    PROVE  \A i \in DOMAIN recent' :
               recent'[i] = 0 \/ \E j \in DOMAIN recent : recent'[i] = recent[j]
BY BoundsAreNat, NoteEntries DEF Acknowledge

LEMMA LogNext == TypeOK /\ LogInv /\ [Next]_vars => LogInv'
<1> SUFFICES ASSUME TypeOK, LogInv, [Next]_vars
             PROVE  LogInv'
  OBVIOUS
<1> DEFINE NoNewEntry == \A i \in DOMAIN recent' :
               recent'[i] = 0 \/ \E j \in DOMAIN recent : recent'[i] = recent[j]
<1>1. CASE UNCHANGED vars
  BY <1>1, LogFrame DEF vars
<1>2. ASSUME NEW d \in Deposits, Arrive(d) PROVE LogInv'
  BY <1>2, LogFrame DEF Arrive
<1>3. ASSUME NEW d \in Deposits, NEW how \in Entered, AcknowledgeDeposit(d, how)
      PROVE  LogInv'
  BY <1>3, LogAcknowledge, LogFrame DEF AcknowledgeDeposit
<1>4. ASSUME NEW s \in Swaps, Payout(s) PROVE LogInv'
  <2>1. [why |-> "payout", for |-> s] \in Send
    BY DEF Send
  <2>2. \A i \in DOMAIN sends : i \in DOMAIN sends' /\ sends'[i] = sends[i]
    BY <1>4, <2>1, SentType DEF Payout
  <2> QED
    BY <1>4, <2>2, LogFrame DEF Payout
<1>5. ASSUME NEW a \in Admins, Request(a) PROVE LogInv'
  <2>1. ASSUME NEW op \in Handlings, NEW d \in Deposits, NEW s \in Swaps \cup {NoSwap},
               Begin(a, op, d, s)
        PROVE  LogInv'
    <3>1. call'[a].op = op /\ \A b \in Admins : b # a => call'[b] = call[b]
      BY <2>1 DEF Begin, TypeOK
    <3> QED
      BY <2>1, <3>1, LogFrame DEF Begin, Handlings
  <2>2. ASSUME At(a, "check") \/ At(a, "pay") \/ At(a, "update") \/ At(a, "record"),
               \A b \in Admins : b # a => call'[b] = call[b],
               call'[a] = Idle \/ call'[a].op = call[a].op,
               \A i \in DOMAIN sends : i \in DOMAIN sends' /\ sends'[i] = sends[i],
               NoNewEntry, UNCHANGED ackedSends
        PROVE  LogInv'
    <3>1. call'[a].op # "withdrawn"
      BY <2>2 DEF At, Handlings, Idle
    <3>2. \A b \in Admins : call'[b].op = "withdrawn" => call'[b] = call[b]
      BY <2>2, <3>1
    <3> QED
      BY <2>2, <3>2 DEF LogInv, IsWithdrawal
  <2>3. CASE Check(a)
    <3>1. call[a] \in Handling
      BY <2>3, AtIsHandling DEF Check
    <3>2. /\ call'[a] = Idle \/ call'[a].op = call[a].op
          /\ \A b \in Admins : b # a => call'[b] = call[b]
      BY <2>3, <3>1 DEF Check, Done, TypeOK, Handling
    <3> QED
      BY <2>2, <2>3, <3>2 DEF Check
  <2>4. CASE PayFails(a)
    BY <2>2, <2>4 DEF PayFails, Done, TypeOK
  <2>5. CASE Pay(a)
    <3>1. call[a] \in Handling /\ call[a].op \in Handlings /\ call[a].dep \in Deposits
      BY <2>5, AtIsHandling DEF Pay
    <3>2. \A i \in DOMAIN sends : i \in DOMAIN sends' /\ sends'[i] = sends[i]
      <4>1. [why |-> call[a].op, for |-> call[a].dep] \in Send
        BY <3>1 DEF Send
      <4> QED
        BY <2>5, <4>1, SentType DEF Pay
    <3>3. /\ call'[a] = Idle \/ call'[a].op = call[a].op
          /\ \A b \in Admins : b # a => call'[b] = call[b]
      BY <2>5, <3>1 DEF Pay, Done, TypeOK, Handling
    <3> QED
      BY <2>2, <2>5, <3>2, <3>3 DEF Pay
  <2>6. CASE UpdateSwap(a)
    BY <2>2, <2>6, AtIsHandling DEF UpdateSwap, TypeOK, Handling
  <2>7. CASE Record(a)
    BY <2>2, <2>7, LogAcknowledge DEF Record, RecordAs, Done, TypeOK
  <2>8. CASE RecordFails(a)
    BY <2>2, <2>8 DEF RecordFails, Done, TypeOK
  <2>9. CASE Withdraw(a)
    <3>1. UNCHANGED <<recent, ackedSends>> /\ \A b \in Admins : b # a => call'[b] = call[b]
      BY <2>9 DEF Withdraw, TypeOK
    <3>2. CASE Sent([why |-> "withdrawn"]) /\ call'[a].tx = TxId
      <4>1. [why |-> "withdrawn"] \in Send
        BY DEF Send
      <4>2. \A b \in Admins :
               \/ call'[b] = call[b]
               \/ call'[b].tx \in DOMAIN sends' /\ sends'[call'[b].tx].why = "withdrawn"
        BY <3>1, <3>2, <4>1, SentType
      <4>3. \A i \in DOMAIN sends : i \in DOMAIN sends' /\ sends'[i] = sends[i]
        BY <3>2, <4>1, SentType
      <4> QED
        BY <3>1, <4>2, <4>3, LogFrame
    <3>3. CASE UNCHANGED sends /\ call'[a].tx = 0
      <4>1. \A b \in Admins : call'[b] = call[b] \/ call'[b].tx = 0
        BY <3>1, <3>3
      <4> QED
        BY <3>1, <3>3, <4>1, LogFrame
    <3> QED
      BY <2>9, <3>2, <3>3 DEF Withdraw, TypeOK
  <2>10. CASE LogWithdrawal(a)
    <3>1. /\ call[a].op = "withdrawn" /\ UNCHANGED <<sends, ackedSends>>
          /\ call'[a] = Idle
          /\ \A b \in Admins : b # a => call'[b] = call[b]
      BY <2>10 DEF LogWithdrawal, LogAs, Done, TypeOK
    <3>2. call[a].tx \in 0..MaxSends
      BY <3>1 DEF TypeOK, Idle, Handling, Withdrawing, Handlings
    <3>3. \A i \in DOMAIN recent' :
             recent'[i] = call[a].tx \/ \E j \in DOMAIN recent : recent'[i] = recent[j]
      BY <2>10, <3>2, NoteEntries DEF LogWithdrawal, LogAs
    <3>4. call'[a].op # "withdrawn"
      BY <3>1 DEF Idle
    <3>5. \A b \in Admins : call'[b].op = "withdrawn" => call'[b] = call[b]
      BY <3>1, <3>4
    <3> QED
      BY <3>1, <3>3, <3>5 DEF LogInv, IsWithdrawal
  <2> QED
    BY <1>5, <2>1, <2>3, <2>4, <2>5, <2>6, <2>7, <2>8, <2>9, <2>10 DEF Request
<1>6. CASE Crash
  <2>1. \A a \in Admins : call'[a] = Idle
    BY <1>6 DEF Crash
  <2> QED
    BY <1>6, <2>1, LogFrame DEF Crash, Idle
<1>7. ASSUME NEW i \in 1..MaxSends, AcknowledgeSend(i) PROVE LogInv'
  <2>1. \A k \in DOMAIN recent' :
           recent'[k] \in ackedSends' \/ \E j \in DOMAIN recent : recent'[k] = recent[j]
    BY <1>7, NoteEntries DEF AcknowledgeSend
  <2> QED
    BY <1>7, <2>1, LogFrame DEF AcknowledgeSend
<1>8. ASSUME NEW gone \in SUBSET own, Rotate(gone) PROVE LogInv'
  <2>1. NoNewEntry
    BY <1>8, BoundsAreNat, NoteEntries DEF Rotate
  <2> QED
    BY <1>8, <2>1, LogFrame DEF Rotate
<1> QED
  BY <1>1, <1>2, <1>3, <1>4, <1>5, <1>6, <1>7, <1>8 DEF Next

\* In every order of requests, faults and entries by hand, and however short the log,
\* the report clears nothing but settlements and withdrawals, apart from what an
\* administrator acknowledged and what went to his own wallets.
THEOREM ReportClearsRecordsOnly == Spec => []OnlyRecordsClear
<1>1. Init => LogInv
  BY DEF Init, LogInv, Idle
<1>2. RecordsInv /\ LogInv /\ [Next]_vars => LogInv'
  BY LogNext DEF RecordsInv
<1>3. RecordsInv /\ LogInv => OnlyRecordsClear
  <2> SUFFICES ASSUME RecordsInv, LogInv,
                      NEW i \in (DOMAIN sends) \ (ackedSends \cup own), ~ Unaccounted(i)
               PROVE  \/ sends[i].why = "withdrawn"
                      \/ sends[i].why = "settled" /\ (HasTable => Recorded(i))
    BY DEF OnlyRecordsClear
  <2>1. i # 0
    BY DEF RecordsInv, TypeOK
  <2> QED
    BY <2>1 DEF Unaccounted, RecordsInv, WithdrawalIsRecorded, LogInv, IsWithdrawal
<1> QED
  BY <1>1, <1>2, <1>3, RecordsAlways, PTL DEF Spec

-----------------------------------------------------------------------------
(* How often a deposit is paid out. *)

Few == HasTable /\ IsFiniteSet(Admins)

\* Payments of d that still count, the requests that made one and go on to record
\* it, and the requests that passed the check and have yet to pay.
Unlost(d) == Handled(d) \ lost
Payers(d) ==
    {a \in Admins : (At(a, "update") \/ At(a, "record")) /\ call[a].dep = d}
Passed(d) == {a \in Admins : At(a, "pay") /\ call[a].dep = d}

\* Until d is recorded, a request under way stands for each payment of it.
Traced(d) ==
    ~ Acknowledged(d) => \A i \in Unlost(d) : \E a \in Payers(d) : call[a].tx = i

\* The payments made and the payments to come.
Bounded(d) == Cardinality(Unlost(d)) + Cardinality(Passed(d)) =< Cardinality(Admins)

CountInv == TypeOK /\ \A d \in Deposits : Traced(d) /\ Bounded(d)

LEMMA CountFinite ==
    ASSUME Few, TypeOK, NEW d
    PROVE  /\ IsFiniteSet(Unlost(d)) /\ Cardinality(Unlost(d)) \in Nat
           /\ IsFiniteSet(Passed(d)) /\ Cardinality(Passed(d)) \in Nat
           /\ IsFiniteSet(Payers(d)) /\ Cardinality(Payers(d)) \in Nat
           /\ Cardinality(Admins) \in Nat
<1>1. IsFiniteSet(Admins) /\ Cardinality(Admins) \in Nat
  BY FS_CardinalityType DEF Few
<1>2. IsFiniteSet(1..Len(sends)) /\ DOMAIN sends = 1..Len(sends)
  BY FS_Interval DEF TypeOK
<1>3. Unlost(d) \in SUBSET (1..Len(sends))
  BY <1>2 DEF Unlost, Handled
<1>4. Passed(d) \in SUBSET Admins /\ Payers(d) \in SUBSET Admins
  BY DEF Passed, Payers
<1>5. IsFiniteSet(Unlost(d)) /\ IsFiniteSet(Passed(d)) /\ IsFiniteSet(Payers(d))
  BY <1>1, <1>2, <1>3, <1>4, FS_Subset
<1> QED
  BY <1>1, <1>5, FS_CardinalityType

LEMMA CountFinitePrime ==
    ASSUME Few, TypeOK', NEW d
    PROVE  /\ IsFiniteSet(Unlost(d)') /\ Cardinality(Unlost(d)') \in Nat
           /\ IsFiniteSet(Passed(d)') /\ Cardinality(Passed(d)') \in Nat
<1>1. IsFiniteSet(Admins)
  BY DEF Few
<1>2. IsFiniteSet(1..Len(sends')) /\ DOMAIN sends' = 1..Len(sends')
  BY FS_Interval DEF TypeOK
<1>3. Unlost(d)' \in SUBSET (1..Len(sends')) /\ Passed(d)' \in SUBSET Admins
  BY <1>2 DEF Unlost, Handled, Passed
<1>4. IsFiniteSet(Unlost(d)') /\ IsFiniteSet(Passed(d)')
  BY <1>1, <1>2, <1>3, FS_Subset
<1> QED
  BY <1>4, FS_CardinalityType

LEMMA CountInit == Few /\ Init => CountInv
<1> SUFFICES ASSUME Few, Init PROVE CountInv
  OBVIOUS
<1>1. TypeOK
  BY TypeInit
<1>2. ASSUME NEW d \in Deposits PROVE Unlost(d) = {} /\ Passed(d) = {}
  BY DEF Init, Unlost, Handled, Passed, At, Idle, Handlings
<1>3. Cardinality({}) = 0
  BY FS_EmptySet
<1>4. Cardinality(Admins) \in Nat
  BY FS_CardinalityType DEF Few
<1> QED
  BY <1>1, <1>2, <1>3, <1>4 DEF CountInv, Traced, Bounded

\* No new payment and no new request to pay: nothing to count.
LEMMA CountFrame ==
    ASSUME Few, TypeOK, TypeOK', NEW d, Traced(d), Bounded(d),
           Acknowledged(d) => Acknowledged(d)',
           Unlost(d)' \subseteq Unlost(d),
           Passed(d)' \subseteq Passed(d),
           \A a \in Payers(d) : \/ a \in Payers(d)' /\ call'[a].tx = call[a].tx
                               \/ call[a].tx \notin Unlost(d)'
                               \/ Acknowledged(d)'
    PROVE  Traced(d)' /\ Bounded(d)'
<1>1. Traced(d)'
  BY DEF Traced
<1>2. /\ Cardinality(Unlost(d)') =< Cardinality(Unlost(d))
      /\ Cardinality(Passed(d)') =< Cardinality(Passed(d))
  BY CountFinite, FS_Subset
<1> QED
  BY <1>1, <1>2, CountFinite, CountFinitePrime DEF Bounded

LEMMA CountSend ==
    ASSUME Few, TypeOK, TypeOK', NEW d, Traced(d), Bounded(d),
           NEW x \in Send, Sent(x), x.why \notin Handlings \/ x.for # d,
           UNCHANGED acks, lost \subseteq lost',
           Passed(d)' \subseteq Passed(d),
           \A a \in Payers(d) : a \in Payers(d)' /\ call'[a].tx = call[a].tx
    PROVE  Traced(d)' /\ Bounded(d)'
<1>1. /\ sends'[TxId] = x
      /\ \A i \in DOMAIN sends : sends'[i] = sends[i]
      /\ \A i \in DOMAIN sends' : i # TxId => i \in DOMAIN sends
  BY SentType
<1>2. Unlost(d)' \subseteq Unlost(d)
  BY <1>1 DEF Unlost, Handled
<1>3. Acknowledged(d) => Acknowledged(d)'
  BY DEF Acknowledged
<1> QED
  BY <1>2, <1>3, CountFrame

\* While d is not recorded, the payments of it are no more than the requests that
\* are about to record one.
LEMMA CountTraced ==
    ASSUME Few, TypeOK, NEW d, Traced(d), ~ Acknowledged(d)
    PROVE  Cardinality(Unlost(d)) =< Cardinality(Payers(d))
<1> DEFINE f == [i \in Unlost(d) |-> CHOOSE a \in Payers(d) : call[a].tx = i]
<1>1. \A i \in Unlost(d) : f[i] \in Payers(d) /\ call[f[i]].tx = i
  BY DEF Traced
<1>2. f \in Injection(Unlost(d), Payers(d))
  BY <1>1 DEF Injection, IsInjective
<1> HIDE DEF f
<1> QED
  BY <1>2, CountFinite, FS_Injection

\* The check lets a request through only while every earlier payment still has its
\* request: they and the ones let through are different administrators.
LEMMA CountCheck ==
    ASSUME Few, TypeOK, TypeOK', NEW a \in Admins, Check(a), ~ Done(a),
           NEW d, Traced(d), Bounded(d)
    PROVE  Traced(d)' /\ Bounded(d)'
<1>1. /\ At(a, "check") /\ ~ Acknowledged(call[a].dep)
      /\ call' = [call EXCEPT ![a].at = "pay"]
      /\ UNCHANGED <<sends, acks, lost>>
  BY DEF Check, Refused
<1>2. call[a] \in Handling
  BY <1>1, AtIsHandling
<1>3. /\ call'[a].dep = call[a].dep
      /\ \A b \in Admins : b # a => call'[b] = call[b]
  BY <1>1, <1>2 DEF TypeOK, Handling
<1>4. Unlost(d)' = Unlost(d) /\ (Acknowledged(d) <=> Acknowledged(d)')
  BY <1>1 DEF Unlost, Handled, Acknowledged
<1>5. a \notin Payers(d)
  BY <1>1 DEF Payers, At
<1>6. \A b \in Payers(d) : b \in Payers(d)' /\ call'[b].tx = call[b].tx
  BY <1>3, <1>5 DEF Payers, At
<1>7. CASE call[a].dep # d
  <2>1. Passed(d)' \subseteq Passed(d)
    BY <1>3, <1>7 DEF Passed, At
  <2> QED
    BY <1>4, <1>6, <2>1, CountFrame
<1>8. CASE call[a].dep = d
  <2>1. Traced(d)'
    BY <1>4, <1>6 DEF Traced
  <2>2. Passed(d)' \subseteq Admins /\ Payers(d) \subseteq Admins
    BY DEF Passed, Payers
  <2>3. Passed(d)' \cap Payers(d) = {}
    BY <1>3, <1>5 DEF Passed, Payers, At
  <2>4. /\ IsFiniteSet(Payers(d)) /\ Cardinality(Payers(d)) \in Nat
        /\ IsFiniteSet(Passed(d)') /\ Cardinality(Passed(d)') \in Nat
        /\ Cardinality(Unlost(d)) \in Nat /\ Cardinality(Admins) \in Nat
    BY CountFinite, CountFinitePrime
  <2>5. Cardinality(Payers(d) \cup Passed(d)') =< Cardinality(Admins)
    BY <2>2, FS_Subset DEF Few
  <2>6. Cardinality(Payers(d) \cup Passed(d)')
          = Cardinality(Payers(d)) + Cardinality(Passed(d)') - Cardinality({})
    BY <2>3, <2>4, FS_Union
  <2>7. Cardinality({}) = 0
    BY FS_EmptySet
  <2>8. Cardinality(Unlost(d)) =< Cardinality(Payers(d))
    BY <1>1, <1>8, CountTraced
  <2>9. Bounded(d)'
    BY <1>4, <2>4, <2>5, <2>6, <2>7, <2>8 DEF Bounded
  <2> QED
    BY <2>1, <2>9
<1> QED
  BY <1>7, <1>8

LEMMA CountPay ==
    ASSUME Few, TypeOK, TypeOK', NEW a \in Admins, Pay(a), NEW d, Traced(d), Bounded(d)
    PROVE  Traced(d)' /\ Bounded(d)'
<1> DEFINE x == [why |-> call[a].op, for |-> call[a].dep]
<1>1. /\ At(a, "pay") /\ Sent(x) /\ UNCHANGED acks
      /\ lost \subseteq lost'
  BY DEF Pay
<1>2. /\ call[a] \in Handling /\ call[a].op \in Handlings /\ call[a].dep \in Deposits
  BY <1>1, AtIsHandling
<1>3. x \in Send /\ x.for = call[a].dep
  BY <1>2 DEF Send
<1>4. /\ sends'[TxId] = x
      /\ \A i \in DOMAIN sends : sends'[i] = sends[i]
      /\ \A i \in DOMAIN sends' : i # TxId => i \in DOMAIN sends
  BY <1>1, <1>3, SentType
<1>5. \A b \in Admins : b # a => call'[b] = call[b]
  BY DEF Pay, Done, TypeOK
<1>6. ~ At(a, "pay")'
  <2>1. CASE Done(a)
    BY <2>1 DEF Done, TypeOK, At, Idle, Handlings
  <2>2. CASE call' = [call EXCEPT ![a].at = IF call[a].swap = NoSwap THEN "record" ELSE "update",
                                  ![a].tx = TxId]
    <3>1. call'[a].at \in {"record", "update"}
      BY <1>2, <2>2 DEF TypeOK, Handling
    <3> QED
      BY <3>1 DEF At
  <2> QED
    BY <2>1, <2>2 DEF Pay
<1>7. a \notin Payers(d)
  BY <1>1 DEF Payers, At
<1>8. \A b \in Payers(d) : b \in Payers(d)' /\ call'[b].tx = call[b].tx
  BY <1>5, <1>7 DEF Payers, At
<1>9. Passed(d)' \subseteq Passed(d) \ {a}
  BY <1>5, <1>6 DEF Passed, At
<1>10. CASE call[a].dep # d
  <2> HIDE DEF x
  <2> QED
    BY <1>1, <1>3, <1>8, <1>9, <1>10, CountSend
<1>11. CASE call[a].dep = d
  <2>1. Unlost(d)' \subseteq Unlost(d) \cup {TxId}
    BY <1>1, <1>4 DEF Unlost, Handled
  <2>2. a \in Passed(d)
    BY <1>1, <1>11 DEF Passed
  <2>3. Traced(d)'
    <3> SUFFICES ASSUME ~ Acknowledged(d), NEW i \in Unlost(d)'
                 PROVE  \E b \in Payers(d)' : call'[b].tx = i
      BY <1>1 DEF Traced, Acknowledged
    <3>1. CASE i \in Unlost(d)
      BY <1>8, <3>1 DEF Traced
    <3>2. CASE i = TxId
      <4>1. call' = [call EXCEPT ![a].at = IF call[a].swap = NoSwap THEN "record" ELSE "update",
                                 ![a].tx = TxId]
        BY <3>2 DEF Pay, Unlost
      <4>2. /\ call'[a].op = call[a].op /\ call'[a].dep = call[a].dep
            /\ call'[a].tx = TxId /\ call'[a].at \in {"record", "update"}
        BY <1>2, <4>1 DEF TypeOK, Handling
      <4> QED
        BY <1>2, <1>11, <3>2, <4>2 DEF Payers, At
    <3> QED
      BY <2>1, <3>1, <3>2
  <2>4. /\ IsFiniteSet(Unlost(d)) /\ Cardinality(Unlost(d)) \in Nat
        /\ IsFiniteSet(Passed(d)) /\ Cardinality(Passed(d)) \in Nat
        /\ Cardinality(Unlost(d)') \in Nat /\ Cardinality(Passed(d)') \in Nat
        /\ Cardinality(Admins) \in Nat
    BY CountFinite, CountFinitePrime
  <2>5. /\ IsFiniteSet(Passed(d) \ {a})
        /\ Cardinality(Passed(d) \ {a}) = Cardinality(Passed(d)) - 1
    BY <2>2, <2>4, FS_RemoveElement
  <2>6. /\ IsFiniteSet(Unlost(d) \cup {TxId})
        /\ Cardinality(Unlost(d) \cup {TxId}) =< Cardinality(Unlost(d)) + 1
    BY <2>4, FS_AddElement
  <2>7. /\ Cardinality(Passed(d)') =< Cardinality(Passed(d) \ {a})
        /\ Cardinality(Unlost(d)') =< Cardinality(Unlost(d) \cup {TxId})
    BY <1>9, <2>1, <2>5, <2>6, FS_Subset
  <2>8. Cardinality(Unlost(d) \cup {TxId}) \in Nat
    BY <2>6, FS_CardinalityType
  <2>9. Bounded(d)'
    BY <2>4, <2>5, <2>6, <2>7, <2>8 DEF Bounded
  <2> QED
    BY <2>3, <2>9
<1> QED
  BY <1>10, <1>11

LEMMA CountNext == Few /\ CountInv /\ [Next]_vars => CountInv'
<1> SUFFICES ASSUME Few, CountInv, [Next]_vars PROVE CountInv'
  OBVIOUS
<1>0. TypeOK /\ TypeOK'
  BY TypeNext DEF CountInv
<1> SUFFICES ASSUME NEW d \in Deposits PROVE Traced(d)' /\ Bounded(d)'
  BY <1>0 DEF CountInv
<1>t. TypeOK /\ TypeOK' /\ Traced(d) /\ Bounded(d)
  BY <1>0 DEF CountInv
<1>1. ASSUME UNCHANGED <<sends, acks, call, lost>> PROVE Traced(d)' /\ Bounded(d)'
  BY <1>1, <1>t DEF Traced, Bounded, Unlost, Handled, Passed, Payers, Acknowledged, At
<1>2. CASE UNCHANGED vars
  BY <1>1, <1>2, <1>t DEF vars
<1>3. ASSUME NEW e \in Deposits, Arrive(e) PROVE Traced(d)' /\ Bounded(d)'
  BY <1>1, <1>3 DEF Arrive
<1>4. ASSUME NEW e \in Deposits, NEW how \in Entered, AcknowledgeDeposit(e, how)
      PROVE  Traced(d)' /\ Bounded(d)'
  <2>1. UNCHANGED <<sends, call, lost>> /\ acks \subseteq acks'
    BY <1>4 DEF AcknowledgeDeposit, Acknowledge
  <2> QED
    BY <1>t, <2>1, CountFrame DEF Unlost, Handled, Passed, Payers, Acknowledged, At
<1>5. ASSUME NEW s \in Swaps, Payout(s) PROVE Traced(d)' /\ Bounded(d)'
  <2> DEFINE x == [why |-> "payout", for |-> s]
  <2>1. x \in Send /\ x.why \notin Handlings
    BY DEF Send, Handlings
  <2>2. Sent(x) /\ UNCHANGED <<acks, call, lost>>
    BY <1>5 DEF Payout
  <2>3. Passed(d)' \subseteq Passed(d) /\ Payers(d)' = Payers(d)
    BY <2>2 DEF Passed, Payers, At
  <2> HIDE DEF x
  <2> QED
    BY <1>t, <2>1, <2>2, <2>3, CountSend
<1>6. ASSUME NEW a \in Admins, Request(a) PROVE Traced(d)' /\ Bounded(d)'
  <2>0. ASSUME Done(a), UNCHANGED <<sends, lost>>, acks \subseteq acks', ~ (a \in Payers(d))
        PROVE  Traced(d)' /\ Bounded(d)'
    <3>1. call'[a] = Idle /\ \A b \in Admins : b # a => call'[b] = call[b]
      BY <1>t, <2>0 DEF Done, TypeOK
    <3>2. Passed(d)' \subseteq Passed(d)
      BY <3>1 DEF Passed, At, Idle, Handlings
    <3>3. \A b \in Payers(d) : b \in Payers(d)' /\ call'[b].tx = call[b].tx
      BY <2>0, <3>1 DEF Payers, At
    <3>4. Unlost(d)' \subseteq Unlost(d) /\ (Acknowledged(d) => Acknowledged(d)')
      BY <2>0 DEF Unlost, Handled, Acknowledged
    <3> QED
      BY <1>t, <3>2, <3>3, <3>4, CountFrame
  <2>1. ASSUME NEW op \in Handlings, NEW e \in Deposits, NEW s \in Swaps \cup {NoSwap},
               Begin(a, op, e, s)
        PROVE  Traced(d)' /\ Bounded(d)'
    <3>1. /\ call[a] = Idle /\ UNCHANGED <<sends, acks, lost>>
          /\ \A b \in Admins : b # a => call'[b] = call[b]
          /\ call'[a] = [op |-> op, at |-> "check", dep |-> e, swap |-> s, tx |-> 0]
      BY <2>1, <1>t DEF Begin, TypeOK
    <3>2. Passed(d)' \subseteq Passed(d)
      BY <3>1 DEF Passed, At
    <3>3. \A b \in Payers(d) : b \in Payers(d)' /\ call'[b].tx = call[b].tx
      BY <3>1 DEF Payers, At, Idle, Handlings
    <3>4. Unlost(d)' = Unlost(d) /\ (Acknowledged(d) => Acknowledged(d)')
      BY <3>1 DEF Unlost, Handled, Acknowledged
    <3> QED
      BY <1>t, <3>2, <3>3, <3>4, CountFrame
  <2>2. CASE Check(a)
    <3>1. CASE Done(a)
      BY <2>0, <2>2, <3>1 DEF Check, Payers, At
    <3>2. CASE ~ Done(a)
      BY <1>t, <2>2, <3>2, CountCheck
    <3> QED
      BY <3>1, <3>2
  <2>3. CASE PayFails(a)
    BY <2>0, <2>3 DEF PayFails, Payers, At
  <2>4. CASE Pay(a)
    BY <1>t, <2>4, CountPay
  <2>5. CASE UpdateSwap(a)
    <3>1. At(a, "update") /\ UNCHANGED <<sends, acks, lost>>
      BY <2>5 DEF UpdateSwap
    <3>2. call[a] \in Handling
      BY <1>t, <3>1, AtIsHandling
    <3>3. /\ \A b \in Admins : b # a => call'[b] = call[b]
          /\ call'[a].op = call[a].op /\ call'[a].dep = call[a].dep
          /\ call'[a].tx = call[a].tx /\ call'[a].at = "record"
      BY <1>t, <2>5, <3>2 DEF UpdateSwap, TypeOK, Handling
    <3>4. Passed(d)' \subseteq Passed(d)
      BY <3>3 DEF Passed, At
    <3>5. \A b \in Payers(d) : b \in Payers(d)' /\ call'[b].tx = call[b].tx
      BY <3>3 DEF Payers, At
    <3>6. Unlost(d)' = Unlost(d) /\ (Acknowledged(d) => Acknowledged(d)')
      BY <3>1 DEF Unlost, Handled, Acknowledged
    <3> QED
      BY <1>t, <3>4, <3>5, <3>6, CountFrame
  <2>6. CASE Record(a)
    <3>1. /\ At(a, "record") /\ Done(a) /\ UNCHANGED <<sends, lost>>
          /\ acks' = acks \cup {<<call[a].dep, call[a].op, "request">>}
      BY <2>6 DEF Record, RecordAs, Acknowledge, Few
    <3>2. call[a].op \in Handlings
      BY <1>t, <3>1, AtIsHandling
    <3>3. CASE a \notin Payers(d)
      BY <2>0, <3>1, <3>3
    <3>4. CASE a \in Payers(d)
      <4>1. call[a].dep = d
        BY <3>4 DEF Payers
      <4>2. Acknowledged(d)'
        BY <3>1, <3>2, <4>1 DEF Acknowledged, Actions
      <4>3. Unlost(d)' = Unlost(d)
        BY <3>1 DEF Unlost, Handled
      <4>4. Passed(d)' \subseteq Passed(d)
        BY <1>t, <3>1 DEF Done, TypeOK, Passed, At, Idle, Handlings
      <4> QED
        BY <1>t, <4>2, <4>3, <4>4, CountFrame
    <3> QED
      BY <3>3, <3>4
  <2>7. CASE RecordFails(a)
    <3>1. /\ Done(a) /\ UNCHANGED <<sends, acks>> /\ lost' = lost \cup {call[a].tx}
      BY <2>7 DEF RecordFails
    <3>2. call'[a] = Idle /\ \A b \in Admins : b # a => call'[b] = call[b]
      BY <1>t, <3>1 DEF Done, TypeOK
    <3>3. Passed(d)' \subseteq Passed(d)
      BY <3>2 DEF Passed, At, Idle, Handlings
    <3>4. /\ Unlost(d)' \subseteq Unlost(d) /\ call[a].tx \notin Unlost(d)'
          /\ Acknowledged(d) => Acknowledged(d)'
      BY <3>1 DEF Unlost, Handled, Acknowledged
    <3>5. \A b \in Payers(d) : \/ b \in Payers(d)' /\ call'[b].tx = call[b].tx
                              \/ b = a
      BY <3>2 DEF Payers, At
    <3> QED
      BY <1>t, <3>3, <3>4, <3>5, CountFrame
  <2>8. CASE Withdraw(a)
    <3>1. /\ call[a] = Idle /\ UNCHANGED <<acks, lost>>
          /\ \A b \in Admins : b # a => call'[b] = call[b]
          /\ call'[a].op = "withdrawn"
      BY <2>8, <1>t DEF Withdraw, TypeOK
    <3>2. Passed(d)' \subseteq Passed(d)
      BY <3>1 DEF Passed, At, Handlings
    <3>3. \A b \in Payers(d) : b \in Payers(d)' /\ call'[b].tx = call[b].tx
      BY <3>1 DEF Payers, At, Idle, Handlings
    <3>4. CASE Sent([why |-> "withdrawn"])
      <4> DEFINE x == [why |-> "withdrawn"]
      <4>1. x \in Send /\ x.why \notin Handlings
        BY DEF Send, Handlings
      <4> HIDE DEF x
      <4> QED
        BY <1>t, <3>1, <3>2, <3>3, <3>4, <4>1, CountSend DEF x
    <3>5. CASE UNCHANGED sends
      <4>1. Unlost(d)' = Unlost(d) /\ (Acknowledged(d) => Acknowledged(d)')
        BY <3>1, <3>5 DEF Unlost, Handled, Acknowledged
      <4> QED
        BY <1>t, <3>2, <3>3, <4>1, CountFrame
    <3> QED
      BY <2>8, <3>4, <3>5 DEF Withdraw
  <2>9. CASE LogWithdrawal(a)
    <3>1. a \notin Payers(d)
      BY <2>9 DEF LogWithdrawal, LogAs, Payers, At, Handlings
    <3> QED
      BY <2>0, <2>9, <3>1 DEF LogWithdrawal, LogAs
  <2> QED
    BY <1>6, <2>1, <2>2, <2>3, <2>4, <2>5, <2>6, <2>7, <2>8, <2>9 DEF Request
<1>7. CASE Crash
  <2>1. /\ \A a \in Admins : call'[a] = Idle
        /\ UNCHANGED <<sends, acks>> /\ lost' = lost \cup {call[a].tx : a \in Paying}
    BY <1>7 DEF Crash
  <2>2. Passed(d)' \subseteq Passed(d)
    BY <2>1 DEF Passed, At, Idle, Handlings
  <2>3. Payers(d) \subseteq Paying
    BY DEF Payers, Paying
  <2>4. /\ Unlost(d)' \subseteq Unlost(d) /\ (Acknowledged(d) => Acknowledged(d)')
        /\ \A a \in Payers(d) : call[a].tx \notin Unlost(d)'
    BY <2>1, <2>3 DEF Unlost, Handled, Acknowledged
  <2> QED
    BY <1>t, <2>2, <2>4, CountFrame
<1>8. ASSUME NEW i \in 1..MaxSends, AcknowledgeSend(i) PROVE Traced(d)' /\ Bounded(d)'
  BY <1>1, <1>8 DEF AcknowledgeSend
<1>9. ASSUME NEW gone \in SUBSET own, Rotate(gone) PROVE Traced(d)' /\ Bounded(d)'
  BY <1>1, <1>9 DEF Rotate
<1> QED
  BY <1>2, <1>3, <1>4, <1>5, <1>6, <1>7, <1>8, <1>9 DEF Next

\* With the table in place and finitely many administrators, a deposit is paid out
\* no more often than there are administrators, apart from payments whose record was
\* lost: the check of is_transaction_acknowledged stops every later request.
THEOREM PaysOncePerRequest ==
    ASSUME IsFiniteSet(Admins)
    PROVE  Spec => []PaidOncePerRequest
<1>1. CASE ~ HasTable
  <2>1. PaidOncePerRequest
    BY <1>1 DEF PaidOncePerRequest
  <2> QED
    BY <2>1, PTL
<1>2. CASE HasTable
  <2>1. Few
    BY <1>2 DEF Few
  <2>2. CountInv => PaidOncePerRequest
    <3> SUFFICES ASSUME CountInv, NEW d \in Deposits
                 PROVE  Cardinality(Handled(d) \ lost) =< Cardinality(Admins)
      BY DEF PaidOncePerRequest
    <3>1. TypeOK /\ Bounded(d)
      BY DEF CountInv
    <3>2. /\ Cardinality(Unlost(d)) \in Nat /\ Cardinality(Passed(d)) \in Nat
          /\ Cardinality(Admins) \in Nat
      BY <2>1, <3>1, CountFinite
    <3> QED
      BY <3>1, <3>2 DEF Bounded, Unlost
  <2> QED
    BY <2>1, <2>2, CountInit, CountNext, PTL DEF Spec
<1> QED
  BY <1>1, <1>2
=============================================================================
