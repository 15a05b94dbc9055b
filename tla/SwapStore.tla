------------------------------ MODULE SwapStore ------------------------------
(***************************************************************************)
(* The swaps table as SwapHistoryService reads and writes it.              *)
(*                                                                         *)
(* A row holds the status twice, in its status column and inside the JSON  *)
(* of data_json.  Queries select by the column; the engine works on the    *)
(* JSON.  The administrator's override is one field here: "absent" when    *)
(* the JSON has no such key, "null" when it is cleared, or the status the  *)
(* administrator set.  The override columns hold what the JSON holds, with *)
(* NULL for a missing key, so AdminColumn derives them.                    *)
(*                                                                         *)
(* Timestamps, addresses and the other payload are left out; of the        *)
(* amounts only net_amount is kept, which the liquidity hold compares.     *)
(***************************************************************************)
EXTENDS SwapStatus, Naturals

CONSTANTS
    None,       \* what a lookup returns when there is no such swap
    Amounts     \* the net amounts swaps are made for

AdminMarks == SwapStatuses \cup {"absent", "null"}

\* A swap as a Python dict, and a row of the table.
Swap == [status : SwapStatuses, admin : AdminMarks, net : Amounts]
Row  == [col : SwapStatuses, data : Swap]

ASSUME AmountsAreNaturals == Amounts \subseteq Nat
ASSUME NoneIsNoRecord == None \notin Swap \cup Row

AdminColumn(r) == IF r.data.admin = "absent" THEN "null" ELSE r.data.admin

GetSwap(r) ==
    IF r = None THEN None ELSE [r.data EXCEPT !.admin = AdminColumn(r)]

\* The column says "pending" whatever the status in the JSON is.
AddSwap(o) == [col |-> "pending", data |-> o]

\* existing.update(updates): a key the update does not have stays.
Merge(old, o) ==
    [o EXCEPT !.admin = IF o.admin = "absent" THEN old.admin ELSE o.admin]

\* Faulty variants of UpdateSwap and CompleteSwap, for the mutation checks.
UpdateSwapJsonOnly(r, o) ==
    IF r = None THEN None ELSE [r EXCEPT !.data = Merge(GetSwap(r), o)]
UpdateSwapWrongColumn(r, o) ==
    IF r = None THEN None
    ELSE [col |-> Merge(GetSwap(r), o).admin, data |-> Merge(GetSwap(r), o)]
CompleteSwapStampOnly(r) == r

UpdateSwap(r, o) ==
    IF r = None THEN None
    ELSE [col |-> o.status, data |-> Merge(GetSwap(r), o)]

\* Marks the stored copy completed: nothing the engine changed only in memory
\* (settle_txid, reconciled_by, the status reconciled) reaches the row.
CompleteSwap(r) ==
    IF r = None THEN None
    ELSE [col |-> "completed", data |-> [GetSwap(r) EXCEPT !.status = "completed"]]

\* An update that names only the status.
UpdateStatus(r, st) ==
    IF r = None THEN None
    ELSE [col |-> st, data |-> [GetSwap(r) EXCEPT !.status = st]]

\* What get_pending_swaps returns of a row: the JSON as it is stored.
PendingSwap(r) ==
    IF r # None THEN IF r.col \in LoadedStates THEN r.data ELSE None ELSE None
=============================================================================
