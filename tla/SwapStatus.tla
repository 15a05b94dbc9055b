------------------------------ MODULE SwapStatus ------------------------------
(***************************************************************************)
(* The statuses of a swap and the sets of statuses that the engine, the    *)
(* store and the cleanup job branch on.  A status is the string the code   *)
(* stores in the swap record.                                              *)
(***************************************************************************)

SwapStatuses ==
    {"pending", "awaiting_deposit", "processing", "completed", "delayed",
     "failed", "expired", "cancelled", "timed_out", "late_deposit",
     "reconciled", "circuit_breaker", "invalid"}

\* "Still being processed".
ActiveStates ==
    {"pending", "awaiting_deposit", "processing", "delayed", "circuit_breaker"}

\* A confirmation carries these on to settlement.
Unconfirmed == {"pending", "awaiting_deposit"}

\* A confirmation turns these into late_deposit: the first set when the engine
\* has only the stored row, the second when it holds the swap in its cache.
LateWhenStored == {"expired", "cancelled", "timed_out"}
LateWhenCached ==
    {"expired", "cancelled", "timed_out", "invalid", "circuit_breaker"}

\* An administrator's choice that confirm_deposit leaves alone.
AdminFinal ==
    {"completed", "cancelled", "failed", "expired", "timed_out", "invalid"}

\* set_swap_status drops the swap from the cache for these.
DroppedOnSet ==
    {"cancelled", "invalid", "expired", "timed_out", "circuit_breaker"}

\* What a starting engine loads into its cache.  LoadedWithoutDelayed is a
\* faulty variant, for the mutation checks.
LoadedWithoutDelayed == {"pending", "awaiting_deposit", "processing"}
LoadedStates == {"pending", "awaiting_deposit", "processing", "delayed"}

\* The cleanup job times these out, and its deposit scan passes over those.
\* NotScannedIfOld is a faulty variant, for the mutation checks, and so is ExpirableUntilSeen.
NotScannedIfOld == {"completed", "failed", "late_deposit", "processing", "timed_out"}
ExpirableUntilSeen == {"pending", "processing"}
Expirable  == {"pending", "awaiting_deposit", "processing"}
NotScanned == {"completed", "failed", "late_deposit", "processing"}
=============================================================================
