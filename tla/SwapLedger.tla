------------------------------ MODULE SwapLedger ------------------------------
(***************************************************************************)
(* What the swap service promises of a swap, whatever caches, tables and   *)
(* threads it is built from: a swap is paid out once, on grounds that      *)
(* someone has given for it and that stay, the payout and its record are   *)
(* one step, and a record is not withdrawn.  An administrator who takes a  *)
(* swap in hand takes it out of the promise.                               *)
(***************************************************************************)
EXTENDS Naturals

CONSTANT Swaps

VARIABLES
    backed,     \* the swaps that there are grounds to pay out
    manual,     \* the swaps an administrator has taken in hand
    payouts,    \* how many payouts were made for each swap
    settled     \* the swaps recorded as completed

ledgerVars == <<backed, manual, payouts, settled>>

LedgerInit ==
    /\ backed = {}
    /\ manual = {}
    /\ payouts = [s \in Swaps |-> 0]
    /\ settled = {}

Back(s) ==
    /\ backed' = backed \cup {s}
    /\ UNCHANGED <<manual, payouts, settled>>

\* The grounds may be given with the payout itself.
Settle(s) ==
    /\ s \notin manual \cup settled
    /\ payouts[s] = 0
    /\ backed' = backed \cup {s}
    /\ payouts' = [payouts EXCEPT ![s] = 1]
    /\ settled' = settled \cup {s}
    /\ UNCHANGED manual

\* A step on a swap that an administrator takes, or has, in hand.
ByHand(s) ==
    /\ manual' = manual \cup {s}
    /\ payouts' = [payouts EXCEPT ![s] = @ + 1] \/ payouts' = payouts
    /\ settled' = settled \cup {s} \/ settled' = settled \ {s}
    /\ backed' = backed \cup {s} \/ backed' = backed

LedgerNext == \E s \in Swaps : Back(s) \/ Settle(s) \/ ByHand(s)

LedgerSpec == LedgerInit /\ [][LedgerNext]_ledgerVars
=============================================================================
