----------------------------- MODULE WalletAudit -----------------------------
(***************************************************************************)
(* Deposits that no swap took up, what administrators do about them, and   *)
(* the report that compares the wallets' history with the records.         *)
(*                                                                         *)
(* An administrator settles a deposit (pays it out converted, perhaps on   *)
(* behalf of a swap) or refunds it: the request checks the records, pays,  *)
(* and records, other calls come in between, and the process may end.  He  *)
(* may also enter a record by hand, of any transaction and with any        *)
(* action, withdraw coins, and rotate an address of his own wallets.       *)
(*                                                                         *)
(* acknowledged_transactions is created by no migration.  HasTable says    *)
(* whether the table exists all the same; without it every lookup answers  *)
(* "not acknowledged" and every insert fails, and both are only logged.    *)
(***************************************************************************)
EXTENDS Integers, Sequences, FiniteSets

CONSTANTS
    Swaps,       \* swaps
    Deposits,    \* incoming transactions
    Admins,      \* threads that serve administrators' requests
    Entered,     \* the actions an administrator enters by hand; nothing checks them
    NoSwap,      \* "no swap_id given"
    HasTable,    \* whether acknowledged_transactions exists
    Faults,      \* whether the process may end, a wallet's answer get lost, a write fail
    ActionLimit, \* how many recent wallet actions the report considers
    MaxSends,    \* bound: outgoing transactions
    MaxAside     \* bound: entries by hand and payments to administrators, at once

Handlings == {"settled", "refunded"}
Actions == Handlings \cup {"liquidity"}

ASSUME NoSwapIsNone == NoSwap \notin Swaps
ASSUME EnteredKnown == Entered \subseteq Actions
ASSUME BoundsAreNat == MaxSends \in Nat /\ MaxAside \in Nat /\ ActionLimit \in Nat \ {0}
ASSUME SwitchesAreBoolean == HasTable \in BOOLEAN /\ Faults \in BOOLEAN

\* An outgoing transaction: why it was made, and for which deposit or swap.
Send == [why : Handlings, for : Deposits] \cup [why : {"payout"}, for : Swaps]
            \cup [why : {"withdrawn"}]

VARIABLES
    arrived,    \* the deposits in the wallets' history
    sends,      \* the outgoing transactions, in their order; a txid is an index
    withdrawal, \* the withdrawal_txid of each swap's row; 0 when it has none
    own,        \* the outgoing transactions to an address in admin_wallets
    acks,       \* acknowledged_transactions: deposits, and who wrote the record (one
                \* entered by hand has no address)
    ackedSends, \* acknowledged_transactions: outgoing transactions, entered by hand
    recent,     \* txids of the newest wallet actions; 0: none, or an incoming one
    call,       \* the request each administrator's thread is in
    lost        \* history: settlements and refunds whose record was never written

vars == <<arrived, sends, own, withdrawal, acks, ackedSends, recent, call, lost>>

Idle == [op |-> "none"]
Handling ==
    [op : Handlings, at : {"check", "pay", "update", "record"},
     dep : Deposits, swap : Swaps \cup {NoSwap}, tx : 0..MaxSends]
Withdrawing == [op : {"withdrawn"}, tx : 0..MaxSends]

TypeOK ==
    /\ arrived \subseteq Deposits
    /\ sends \in Seq(Send) /\ Len(sends) =< MaxSends
    /\ withdrawal \in [Swaps -> 0..MaxSends]
    /\ own \subseteq 1..Len(sends)
    /\ acks \subseteq Deposits \X Actions \X {"request", "hand"}
    /\ ackedSends \subseteq 1..Len(sends)
    /\ recent \in Seq(0..MaxSends) /\ Len(recent) =< ActionLimit
    /\ call \in [Admins -> {Idle} \cup Handling \cup Withdrawing]
    /\ lost \subseteq 0..MaxSends

Init ==
    /\ arrived = {}
    /\ sends = <<>>
    /\ withdrawal = [s \in Swaps |-> 0]
    /\ own = {}
    /\ acks = {}
    /\ ackedSends = {}
    /\ recent = <<>>
    /\ call = [a \in Admins |-> Idle]
    /\ lost = {}

-----------------------------------------------------------------------------
(* The chain and the engine, as far as the records show them. *)

Arrive(d) ==
    /\ d \notin arrived
    /\ arrived' = arrived \cup {d}
    /\ UNCHANGED <<sends, own, withdrawal, acks, ackedSends, recent, call, lost>>

\* What the report passes over without a match is within the bound.
MayStepAside ==
    Cardinality(own) + Cardinality(ackedSends)
        + Cardinality({r \in acks : r[3] = "hand"}) < MaxAside

\* It may go to an address of the administrators' wallets.
Sent(x) ==
    /\ Len(sends) < MaxSends
    /\ sends' = Append(sends, x)
    /\ \/ own' = own
       \/ MayStepAside /\ own' = own \cup {Len(sends) + 1}
\* TxIdOfNext is a faulty variant, for the mutation checks.
TxIdOfNext == Len(sends) + 2
TxId == Len(sends) + 1

\* _settle_swap.  The txid goes into settle_txid, in memory only.
Payout(s) ==
    /\ Sent([why |-> "payout", for |-> s])
    /\ UNCHANGED <<arrived, withdrawal, acks, ackedSends, recent, call, lost>>

-----------------------------------------------------------------------------
(* settle_orphaned_transaction and refund_orphaned_transaction. *)

Acknowledged(d) == \E how \in Actions, by \in {"request", "hand"} : <<d, how, by>> \in acks

Done(a) == call' = [call EXCEPT ![a] = Idle]
At(a, place) == call[a].op \in Handlings /\ call[a].at = place

\* The newest ActionLimit of what get_wallet_actions merges from both tables.
Note(tx) ==
    recent' = Append(IF Len(recent) < ActionLimit THEN recent ELSE Tail(recent), tx)

\* The request names a deposit of the report and, to settle, perhaps a swap.
Begin(a, op, d, s) ==
    /\ call[a] = Idle
    /\ d \in arrived
    /\ op = "refunded" => s = NoSwap
    /\ call' = [call EXCEPT ![a] =
                   [op |-> op, at |-> "check", dep |-> d, swap |-> s, tx |-> 0]]
    /\ UNCHANGED <<arrived, sends, own, withdrawal, acks, ackedSends, recent, lost>>

\* "Transaction has already been acknowledged/processed".  NeverRefused is a
\* faulty variant, for the mutation checks.
NeverRefused(a) == FALSE
Refused(a) == Acknowledged(call[a].dep)

Check(a) ==
    /\ At(a, "check")
    /\ \/ Refused(a) /\ Done(a)
       \/ ~ Refused(a) /\ call' = [call EXCEPT ![a].at = "pay"]
    /\ UNCHANGED <<arrived, sends, own, withdrawal, acks, ackedSends, recent, lost>>

\* Less than the swap expects, too little after fees, no price, or the wallet refuses.
PayFails(a) ==
    /\ At(a, "pay")
    /\ Done(a)
    /\ UNCHANGED <<arrived, sends, own, withdrawal, acks, ackedSends, recent, lost>>

\* The wallet's answer leads on to the record, unless it is lost.
Pay(a) ==
    LET c == call[a] IN
    /\ At(a, "pay")
    /\ Sent([why |-> c.op, for |-> c.dep])
    /\ \/ /\ call' = [call EXCEPT ![a].at = IF c.swap = NoSwap THEN "record" ELSE "update",
                                  ![a].tx = TxId]
          /\ UNCHANGED lost
       \/ Faults /\ Done(a) /\ lost' = lost \cup {TxId}
    /\ UNCHANGED <<arrived, withdrawal, acks, ackedSends, recent>>

\* history.update_swap with the txid; a write that fails is only logged.
UpdateSwap(a) ==
    /\ At(a, "update")
    /\ \/ withdrawal' = [withdrawal EXCEPT ![call[a].swap] = call[a].tx]
       \/ Faults /\ UNCHANGED withdrawal
    /\ call' = [call EXCEPT ![a].at = "record"]
    /\ UNCHANGED <<arrived, sends, own, acks, ackedSends, recent, lost>>

\* acknowledge_transaction, whose result the caller does not look at.
Acknowledge(d, how, by) ==
    IF HasTable THEN acks' = acks \cup {<<d, how, by>>} /\ Note(0)
                ELSE UNCHANGED <<acks, recent>>

RecordAs(a, how) ==
    /\ At(a, "record")
    /\ Acknowledge(call[a].dep, how, "request")
    /\ Done(a)
    /\ UNCHANGED <<arrived, sends, own, withdrawal, ackedSends, lost>>

\* RecordAsSettled and RecordOnlyRefunds are faulty variants, for the mutation checks.
RecordAsSettled(a) == RecordAs(a, "settled")
RecordOnlyRefunds(a) ==
    IF call[a].op = "refunded" THEN RecordAs(a, "refunded")
    ELSE At(a, "record") /\ Done(a)
         /\ UNCHANGED <<arrived, sends, own, withdrawal, acks, ackedSends, recent, lost>>
Record(a) == RecordAs(a, call[a].op)

RecordFails(a) ==
    /\ Faults
    /\ At(a, "record")
    /\ lost' = lost \cup {call[a].tx}
    /\ Done(a)
    /\ UNCHANGED <<arrived, sends, own, withdrawal, acks, ackedSends, recent>>

-----------------------------------------------------------------------------
(* The other requests. *)

\* The acknowledge endpoint ("roll to liquidity", unless the request names another
\* action): neither the records nor the wallet are asked.
AcknowledgeDeposit(d, how) ==
    /\ d \in arrived
    /\ HasTable /\ MayStepAside
    /\ Acknowledge(d, how, "hand")
    /\ UNCHANGED <<arrived, sends, own, withdrawal, ackedSends, call, lost>>

\* The same, for a transaction that went out.
AcknowledgeSend(i) ==
    /\ i \in DOMAIN sends
    /\ HasTable /\ MayStepAside
    /\ ackedSends' = ackedSends \cup {i}
    /\ Note(i)
    /\ UNCHANGED <<arrived, sends, own, withdrawal, acks, call, lost>>

\* rotate_wallet_address: gone went to the address that is replaced.
Rotate(gone) ==
    /\ own' = own \ gone
    /\ Note(0) \/ (Faults /\ UNCHANGED recent)
    /\ UNCHANGED <<arrived, sends, withdrawal, acks, ackedSends, call, lost>>

\* admin_withdraw; tx is 0 when the wallet refused, which is logged as well.
Withdraw(a) ==
    /\ call[a] = Idle
    /\ \/ /\ Sent([why |-> "withdrawn"])
          /\ call' = [call EXCEPT ![a] = [op |-> "withdrawn", tx |-> TxId]]
       \/ /\ call' = [call EXCEPT ![a] = [op |-> "withdrawn", tx |-> 0]]
          /\ UNCHANGED <<sends, own>>
    /\ UNCHANGED <<arrived, withdrawal, acks, ackedSends, recent, lost>>

\* LogNewestSend is a faulty variant, for the mutation checks.
LogAs(a, tx) ==
    /\ call[a].op = "withdrawn"
    /\ \/ Note(tx)
       \/ Faults /\ UNCHANGED recent
    /\ Done(a)
    /\ UNCHANGED <<arrived, sends, own, withdrawal, acks, ackedSends, lost>>
LogNewestSend(a) == LogAs(a, IF call[a].tx = 0 THEN 0 ELSE Len(sends))
LogWithdrawal(a) == LogAs(a, call[a].tx)

\* The requests that paid and have not recorded it.
Paying == {a \in Admins : At(a, "update") \/ At(a, "record")}

\* The process ends with every request in it.
Crash ==
    /\ Faults
    /\ \E a \in Admins : call[a] # Idle
    /\ lost' = lost \cup {call[a].tx : a \in Paying}
    /\ call' = [a \in Admins |-> Idle]
    /\ UNCHANGED <<arrived, sends, own, withdrawal, acks, ackedSends, recent>>

Request(a) ==
    \/ \E op \in Handlings, d \in Deposits, s \in Swaps \cup {NoSwap} : Begin(a, op, d, s)
    \/ Check(a) \/ PayFails(a) \/ Pay(a) \/ UpdateSwap(a) \/ Record(a) \/ RecordFails(a)
    \/ Withdraw(a) \/ LogWithdrawal(a)

Next ==
    \/ \E d \in Deposits : Arrive(d) \/ \E how \in Entered : AcknowledgeDeposit(d, how)
    \/ \E i \in 1..MaxSends : AcknowledgeSend(i)
    \/ \E gone \in SUBSET own : Rotate(gone)
    \/ \E s \in Swaps : Payout(s)
    \/ \E a \in Admins : Request(a)
    \/ Crash

Spec == Init /\ [][Next]_vars

-----------------------------------------------------------------------------
(* reconcile_full_history. *)

\* An outgoing transaction that nobody acknowledged, that went to no address of the
\* administrators' wallets, and that is no row's withdrawal_txid and no recent action.
Unaccounted(tx) ==
    /\ tx \notin ackedSends \cup own
    /\ \A s \in Swaps : withdrawal[s] # tx
    /\ \A i \in DOMAIN recent : recent[i] # tx

-----------------------------------------------------------------------------
(* Properties. *)

Handled(d) == {i \in DOMAIN sends : sends[i].why \in Handlings /\ sends[i].for = d}

\* A deposit that a request recorded as settled or as refunded was paid out that way:
\* in no order of calls, faults and entries by hand does the record of a request come
\* without its payment.  (An entry by hand may say so of a deposit nobody paid out.)
RecordedWasPaid ==
    \A d \in Deposits, how \in Handlings : <<d, how, "request">> \in acks =>
        \E i \in Handled(d) : sends[i].why = how

\* A settlement is in acknowledged_transactions, or about to be, or was cut off.
Recorded(tx) ==
    \/ <<sends[tx].for, "settled", "request">> \in acks
    \/ tx \in lost
    \/ \E a \in Admins : At(a, "record") /\ call[a].tx = tx

\* The withdrawal_txid of a row names a settlement, and the settlement is in
\* acknowledged_transactions too, unless its request is about to record it or was
\* cut off: the two records of one payment do not drift apart.
WithdrawalIsRecorded ==
    \A s \in Swaps : withdrawal[s] # 0 =>
        /\ withdrawal[s] \in DOMAIN sends
        /\ sends[withdrawal[s]].why = "settled"
        /\ HasTable => Recorded(withdrawal[s])

\* With the table in place, and apart from payments whose record was lost, a
\* deposit is paid out at most once for each request under way when it was first
\* recorded: is_transaction_acknowledged closes the door on later ones.
PaidOncePerRequest ==
    HasTable =>
        \A d \in Deposits : Cardinality(Handled(d) \ lost) =< Cardinality(Admins)

\* A deposit is settled or refunded at most once: what is_transaction_acknowledged
\* is asked for.
HandledOnce == \A d \in Deposits : Cardinality(Handled(d)) =< 1

\* What the report passes over, apart from what an administrator acknowledged and
\* what went to his own wallets, is a withdrawal, or a settlement with its record: no
\* other transaction's record clears an ordinary payout, a refund or a payment whose
\* answer was lost.  (So it lists every ordinary payout, as "Manual withdrawal not
\* recorded in system".)
OnlyRecordsClear ==
    \A i \in (DOMAIN sends) \ (ackedSends \cup own) :
        ~ Unaccounted(i) =>
            \/ sends[i].why = "withdrawn"
            \/ sends[i].why = "settled" /\ (HasTable => Recorded(i))
=============================================================================
