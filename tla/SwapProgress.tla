---------------------------- MODULE SwapProgress ----------------------------
(***************************************************************************)
(* What the background threads get done when nobody helps them: SwapEngine *)
(* without an administrator, from whatever state its users, restarts and   *)
(* refusals have left, once users and restarts rest.                       *)
(*                                                                         *)
(* The settlement thread and the cleanup thread come round by their timers *)
(* and the wallets get coins again.  Nothing is assumed of deposit scans:  *)
(* what listunspent lists, and whether it still lists a deposit after a    *)
(* payout from the same wallet, is not the program's to say.               *)
(***************************************************************************)
EXTENDS SwapEngine

UnattendedNext ==
    \/ \E s \in Swaps : UserStep(s)
    \/ BackgroundStep
    \/ ProcessStep

-----------------------------------------------------------------------------
(* Fairness. *)

\* In the end no user calls and no process stops.
Rest == <>[][BackgroundStep \/ Start \/ Respawn]_vars

\* The supervisor restarts the service, the master its worker.
Restarted == WF_vars(Start) /\ WF_vars(Respawn)

\* _settlement_loop comes round, and takes one swap after the other.
SweepTurn == \E s \in Swaps : SweepOne("loop", s)
Sweeping == SF_vars(StartSweep("loop")) /\ WF_vars(SweepTurn)

\* A swap that sweeps try again and again meets a wallet with coins in the end.
SweepPays(s) == SweepOne("loop", s) /\ sends'[s] > sends[s]
WalletsAreFilled == \A s \in Swaps : SF_vars(SweepPays(s))

\* _cleanup_loop comes round, and every swap grows old.
Expiring == WF_vars(ExpireSwaps(Swaps))

Fairness == Rest /\ Restarted /\ Sweeping /\ WalletsAreFilled /\ Expiring

FairSpec == Init /\ [][UnattendedNext]_vars /\ Fairness

-----------------------------------------------------------------------------
(* Properties. *)

\* No swap stays active: whatever refused scans, failed settlements, repeated
\* confirmations and restarts have left in its row, one of the timers takes it to
\* an end, from which nothing makes it active again.  (A flagged swap waits for an
\* administrator.)
Active(s) ==
    db[s] # None /\ db[s].col \in ActiveStates /\ db[s].data.status # "circuit_breaker"
SwapsComeToAnEnd == \A s \in Swaps : Active(s) ~> [] ~ Active(s)

\* A delayed swap does not stay one.  While the API's process, by its cache or by
\* the table, takes it for one, new swaps above its amount are refused: the hold
\* ends, also after failed retries and restarts.
Holds(s) == DelayedInCache(API, s) \/ DelayedInStore(s)
HoldIsReleased == \A s \in Swaps : Holds(s) ~> ~ Holds(s)
=============================================================================
